---------------------------- MODULE Spec2Model ----------------------------
(***************************************************************************)
(* Trading simulation and risk engine of solana_rl_bot:                    *)
(*   environment/trading_env.py             TradingEnv                     *)
(*   environment/continuous_trading_env.py  ContinuousTradingEnv           *)
(*   environment/advanced_trading_env.py    AdvancedTradingEnv             *)
(*   risk/risk_manager.py                   RiskConfig, RiskManager        *)
(*   environment/rewards.py                 ProfitReward                   *)
(*                                                                         *)
(* Python floats are modelled as exact rationals <<n, d>> in lowest terms  *)
(* with d > 0, so every equality below is an equality of real numbers.     *)
(***************************************************************************)
EXTENDS Integers, Sequences, FiniteSets, TLC

(***************************************************************************)
(* Bounds of the model.                                                    *)
(***************************************************************************)
\* number of step() calls an episode can make before it terminates
MaxSteps == 4
\* window_size handed to the constructors (lookback bars before the first step)
WindowSize == 1

(***************************************************************************)
(* Float arithmetic, as exact rational arithmetic.                         *)
(***************************************************************************)
Abs(x) == IF x < 0 THEN -x ELSE x

RECURSIVE GCD(_, _)
GCD(a, b) == IF b = 0 THEN a ELSE GCD(b, a % b)

\* the float n/d (d # 0), in lowest terms with a positive denominator
R(n, d) ==
    LET g == GCD(Abs(n), Abs(d))
        s == IF d < 0 THEN -1 ELSE 1
    IN  <<(s * n) \div g, (s * d) \div g>>

RInt(k) == <<k, 1>>
RZero == <<0, 1>>
\* p percent
Pct(p) == R(p, 100)

RNeg(x) == <<-x[1], x[2]>>

RAdd(x, y) ==
    LET g == GCD(x[2], y[2])
        l == (x[2] \div g) * y[2]
    IN  R(x[1] * (l \div x[2]) + y[1] * (l \div y[2]), l)

RSub(x, y) == RAdd(x, RNeg(y))

RMul(x, y) ==
    LET g1 == GCD(Abs(x[1]), y[2])
        g2 == GCD(Abs(y[1]), x[2])
    IN  R((x[1] \div g1) * (y[1] \div g2), (x[2] \div g2) * (y[2] \div g1))

\* x / y, y # 0
RDiv(x, y) == RMul(x, IF y[1] < 0 THEN <<-y[2], -y[1]>> ELSE <<y[2], y[1]>>)

RSign(x) == IF x[1] > 0 THEN 1 ELSE IF x[1] < 0 THEN -1 ELSE 0
RLt(x, y) == RSign(RSub(x, y)) < 0
RLe(x, y) == RSign(RSub(x, y)) <= 0
RGt(x, y) == RLt(y, x)
RGe(x, y) == RLe(y, x)
RMin(x, y) == IF RLe(x, y) THEN x ELSE y
RMax(x, y) == IF RGe(x, y) THEN x ELSE y
RAbs(x) == <<Abs(x[1]), x[2]>>
ROne == RInt(1)

\* Python's None where a string is expected (risk signal)
None == "None"
\* Python's None where a float is expected, and a key a trade record lacks
NoneR == <<0, 0>>


(***************************************************************************)
(* risk/risk_manager.py : RiskConfig and RiskConfigFactory                 *)
(***************************************************************************)
\* RiskConfig(...) with the fields the factory sets; percentages in percent.
\* The fields the factory never sets keep the dataclass defaults.
RiskConfig(tf, maxp, minp, sl, tp, ts, act, mdd, mdl, mtd, mti) ==
    [ timeframe                  |-> tf,
      max_position_pct           |-> Pct(maxp),
      min_position_pct           |-> Pct(minp),
      stop_loss_pct              |-> Pct(sl),
      take_profit_pct            |-> Pct(tp),
      use_trailing_stop          |-> TRUE,
      trailing_stop_pct          |-> Pct(ts),
      trailing_activation_pct    |-> Pct(act),
      max_drawdown_pct           |-> Pct(mdd),
      max_daily_loss_pct         |-> Pct(mdl),
      max_trades_per_day         |-> mtd,
      min_trade_interval_candles |-> mti,
      use_volatility_scaling     |-> TRUE,
      low_vol_multiplier         |-> R(3, 2),
      high_vol_multiplier        |-> R(1, 2),
      max_risk_per_trade_pct     |-> Pct(2) ]

\* RiskConfig() : the dataclass defaults
RiskConfigDefault == RiskConfig("5min", 25, 10, 10, 20, 5, 8, 20, 8, 15, 6)

Timeframes == {"1min", "5min", "15min", "1h", "4h", "1d"}

\* RiskConfigFactory.create(timeframe)
RiskConfigFactory_create(timeframe) ==
    CASE timeframe = "1min"  -> RiskConfig("1min", 15, 5, 3, 5, 2, 3, 15, 5, 30, 5)
      [] timeframe = "5min"  -> RiskConfig("5min", 25, 10, 8, 15, 4, 6, 20, 8, 15, 6)
      [] timeframe = "15min" -> RiskConfig("15min", 30, 10, 10, 20, 5, 8, 20, 8, 10, 4)
      [] timeframe = "1h"    -> RiskConfig("1h", 35, 15, 12, 25, 6, 10, 25, 10, 5, 4)
      [] timeframe = "4h"    -> RiskConfig("4h", 40, 20, 15, 30, 8, 12, 25, 12, 3, 3)
      [] timeframe = "1d"    -> RiskConfig("1d", 50, 25, 20, 40, 10, 15, 30, 15, 1, 3)

\* Caller-built configurations, the defaults with fields overridden:
\* RiskConfig(take_profit_pct=0.40) and
\* RiskConfig(max_drawdown_pct=0.05, min_trade_interval_candles=2).
\* (timeframe is a label the code never reads.)
ConfigTp40 == [RiskConfigDefault EXCEPT !.timeframe = "tp40", !.take_profit_pct = Pct(40)]
ConfigDd05 == [RiskConfigDefault EXCEPT !.timeframe = "dd05", !.max_drawdown_pct = Pct(5),
                                        !.min_trade_interval_candles = 2]
CustomConfigs == {ConfigTp40, ConfigDd05}

FactoryConfigs == { RiskConfigFactory_create(tf) : tf \in Timeframes }

\* the risk_config values the environments are constructed with
RiskConfigs == {RiskConfigDefault} \cup FactoryConfigs \cup CustomConfigs

(***************************************************************************)
(* risk/risk_manager.py : RiskManager.  A manager is a record rm; every    *)
(* method returns the manager it leaves behind.                            *)
(***************************************************************************)
NoDay == <<"None", 0>>

\* RiskManager.__init__
RiskManagerInit(config) ==
    [ config              |-> config,
      initial_balance     |-> RZero,
      peak_balance        |-> RZero,
      daily_start_balance |-> RZero,
      current_day         |-> NoDay,
      trades_today        |-> 0,
      last_trade_step     |-> -999,
      entry_price         |-> RZero,
      highest_since_entry |-> RZero,
      trailing_stop_active |-> FALSE ]

\* RiskManager.reset without the last_trade_step line
RiskManagerReset_KeepsLastTradeStep(rm, initial_balance) ==
    [ rm EXCEPT !.initial_balance = initial_balance,
                !.peak_balance = initial_balance,
                !.daily_start_balance = initial_balance,
                !.current_day = NoDay,
                !.trades_today = 0,
                !.entry_price = RZero,
                !.highest_since_entry = RZero,
                !.trailing_stop_active = FALSE ]

\* RiskManager.reset(initial_balance)
RiskManagerReset(rm, initial_balance) ==
    [ rm EXCEPT !.initial_balance = initial_balance,
                !.peak_balance = initial_balance,
                !.daily_start_balance = initial_balance,
                !.current_day = NoDay,
                !.trades_today = 0,
                !.last_trade_step = -999,
                !.entry_price = RZero,
                !.highest_since_entry = RZero,
                !.trailing_stop_active = FALSE ]

\* str(timestamp)[:10] if timestamp else None.  A timestamp is
\* <<"date", d, t>> (a datetime on calendar day d, t-th bar of the data) or
\* <<"label", i, i>> (the integer label i of a RangeIndex).  The first ten
\* characters of a datetime are its date; an integer label below 10^10 prints
\* in full, and the label 0 is falsy.
DayOf(timestamp) ==
    IF timestamp[1] = "date" THEN <<"date", timestamp[2]>>
    ELSE IF timestamp[2] = 0 THEN NoDay
    ELSE <<"label", timestamp[2]>>

\* RiskManager.update_day
update_day(rm, timestamp, balance) ==
    LET day == DayOf(timestamp)
    IN  IF day # rm.current_day
        THEN [rm EXCEPT !.current_day = day,
                        !.daily_start_balance = balance,
                        !.trades_today = 0]
        ELSE rm

\* update_peak following the balance down as well as up
update_peak_Latest(rm, balance) == [rm EXCEPT !.peak_balance = balance]

\* RiskManager.update_peak
update_peak(rm, balance) ==
    IF RGt(balance, rm.peak_balance) THEN [rm EXCEPT !.peak_balance = balance] ELSE rm

\* RiskManager.get_current_drawdown
get_current_drawdown(rm, balance) ==
    IF RLe(rm.peak_balance, RZero) THEN RZero
    ELSE RDiv(RSub(balance, rm.peak_balance), rm.peak_balance)

\* RiskManager.get_daily_pnl
get_daily_pnl(rm, balance) ==
    IF RLe(rm.daily_start_balance, RZero) THEN RZero
    ELSE RDiv(RSub(balance, rm.daily_start_balance), rm.daily_start_balance)

Volatilities == {"none", "low", "normal", "high"}

\* calculate_position_size without the risk-based size
calculate_position_size_NoRiskBasedSize(rm, volatility) ==
    LET c == rm.config
        base_size ==
            IF c.use_volatility_scaling /\ volatility # "none"
            THEN IF volatility = "low" THEN RMul(c.max_position_pct, c.low_vol_multiplier)
                 ELSE IF volatility = "high" THEN RMul(c.max_position_pct, c.high_vol_multiplier)
                 ELSE c.max_position_pct
            ELSE c.max_position_pct
        final_size == RMin(base_size, c.max_position_pct)
    IN  RMax(final_size, c.min_position_pct)

\* RiskManager.calculate_position_size; volatility is None ("none"), below
\* 0.7 * normal_vol ("low"), above 1.3 * normal_vol ("high") or in between.
calculate_position_size(rm, volatility) ==
    LET c == rm.config
        base_size ==
            IF c.use_volatility_scaling /\ volatility # "none"
            THEN IF volatility = "low" THEN RMul(c.max_position_pct, c.low_vol_multiplier)
                 ELSE IF volatility = "high" THEN RMul(c.max_position_pct, c.high_vol_multiplier)
                 ELSE c.max_position_pct
            ELSE c.max_position_pct
        risk_based_size == RDiv(c.max_risk_per_trade_pct, c.stop_loss_pct)
        final_size == RMin(RMin(base_size, risk_based_size), c.max_position_pct)
    IN  RMax(final_size, c.min_position_pct)

\* can_open_trade with the daily-loss check left out
can_open_trade_NoDailyLoss(rm, balance, current_step) ==
    IF RLt(get_current_drawdown(rm, balance), RNeg(rm.config.max_drawdown_pct))
    THEN "Max Drawdown"
    ELSE IF rm.trades_today >= rm.config.max_trades_per_day
    THEN "Max Trades"
    ELSE IF current_step - rm.last_trade_step < rm.config.min_trade_interval_candles
    THEN "Min Trade Interval"
    ELSE "OK"

\* RiskManager.can_open_trade: the reason, "OK" when the trade is allowed
can_open_trade(rm, balance, current_step) ==
    IF RLt(get_current_drawdown(rm, balance), RNeg(rm.config.max_drawdown_pct))
    THEN "Max Drawdown"
    ELSE IF RLt(get_daily_pnl(rm, balance), RNeg(rm.config.max_daily_loss_pct))
    THEN "Max Daily Loss"
    ELSE IF rm.trades_today >= rm.config.max_trades_per_day
    THEN "Max Trades"
    ELSE IF current_step - rm.last_trade_step < rm.config.min_trade_interval_candles
    THEN "Min Trade Interval"
    ELSE "OK"

\* RiskManager.on_trade_open
on_trade_open(rm, entry_price, current_step) ==
    [ rm EXCEPT !.entry_price = entry_price,
                !.highest_since_entry = entry_price,
                !.trailing_stop_active = FALSE,
                !.trades_today = @ + 1,
                !.last_trade_step = current_step ]

\* The trigger checks of on_price_update, given which bound the stop-loss
\* test uses, which price the trailing level is taken from and whether
\* highest_since_entry is a running maximum.
PriceUpdate(rm, current_price, stop_below, trail_from_highest, keep_max) ==
    IF RLe(rm.entry_price, RZero) THEN <<rm, None>>
    ELSE
    LET c == rm.config
        rm1 == IF keep_max => RGt(current_price, rm.highest_since_entry)
               THEN [rm EXCEPT !.highest_since_entry = current_price] ELSE rm
        pnl_pct == RDiv(RSub(current_price, rm.entry_price), rm.entry_price)
        rm2 == IF RGe(pnl_pct, c.trailing_activation_pct)
               THEN [rm1 EXCEPT !.trailing_stop_active = TRUE] ELSE rm1
        trailing_stop_price ==
            RMul(IF trail_from_highest THEN rm2.highest_since_entry ELSE rm2.entry_price,
                 RSub(ROne, c.trailing_stop_pct))
    IN  IF stop_below /\ RLe(pnl_pct, RNeg(c.stop_loss_pct)) THEN <<rm1, "STOP_LOSS">>
        ELSE IF RGe(pnl_pct, c.take_profit_pct) THEN <<rm1, "TAKE_PROFIT">>
        ELSE IF ~c.use_trailing_stop THEN <<rm1, None>>
        ELSE IF rm2.trailing_stop_active /\ RLe(current_price, trailing_stop_price)
        THEN <<rm2, "TRAILING_STOP">>
        ELSE <<rm2, None>>

\* on_price_update without the stop-loss test
on_price_update_NoStopLoss(rm, current_price) ==
    PriceUpdate(rm, current_price, FALSE, TRUE, TRUE)

\* on_price_update with the trailing level taken from the entry price
on_price_update_TrailFromEntry(rm, current_price) ==
    PriceUpdate(rm, current_price, TRUE, FALSE, TRUE)

\* on_price_update with highest_since_entry overwritten by every close
on_price_update_LastClose(rm, current_price) ==
    PriceUpdate(rm, current_price, TRUE, TRUE, FALSE)

\* RiskManager.on_price_update: <<manager afterwards, signal>>
on_price_update(rm, current_price) ==
    IF RLe(rm.entry_price, RZero) THEN <<rm, None>>
    ELSE
    LET c == rm.config
        rm1 == IF RGt(current_price, rm.highest_since_entry)
               THEN [rm EXCEPT !.highest_since_entry = current_price] ELSE rm
        pnl_pct == RDiv(RSub(current_price, rm.entry_price), rm.entry_price)
        rm2 == IF RGe(pnl_pct, c.trailing_activation_pct)
               THEN [rm1 EXCEPT !.trailing_stop_active = TRUE] ELSE rm1
        trailing_stop_price == RMul(rm2.highest_since_entry, RSub(ROne, c.trailing_stop_pct))
    IN  IF RLe(pnl_pct, RNeg(c.stop_loss_pct)) THEN <<rm1, "STOP_LOSS">>
        ELSE IF RGe(pnl_pct, c.take_profit_pct) THEN <<rm1, "TAKE_PROFIT">>
        ELSE IF ~c.use_trailing_stop THEN <<rm1, None>>
        ELSE IF rm2.trailing_stop_active /\ RLe(current_price, trailing_stop_price)
        THEN <<rm2, "TRAILING_STOP">>
        ELSE <<rm2, None>>

\* RiskManager.on_trade_close
on_trade_close(rm) ==
    [ rm EXCEPT !.entry_price = RZero,
                !.highest_since_entry = RZero,
                !.trailing_stop_active = FALSE ]

\* RiskManager.get_stop_loss_price
get_stop_loss_price(rm) ==
    IF RLe(rm.entry_price, RZero) THEN RZero
    ELSE IF rm.trailing_stop_active
    THEN RMul(rm.highest_since_entry, RSub(ROne, rm.config.trailing_stop_pct))
    ELSE RMul(rm.entry_price, RSub(ROne, rm.config.stop_loss_pct))

\* RiskManager.get_take_profit_price
get_take_profit_price(rm) ==
    IF RLe(rm.entry_price, RZero) THEN RZero
    ELSE RMul(rm.entry_price, RAdd(ROne, rm.config.take_profit_pct))

(***************************************************************************)
(* The bar data df handed to the constructors.  Bars are numbered from 0   *)
(* as df.iloc numbers them; the first WindowSize bars are the lookback     *)
(* window and the others are generated from a list of closes, the last of  *)
(* which repeats.                                                          *)
(***************************************************************************)
NumBars == WindowSize + MaxSteps + 1

\* closes of the bars after the lookback window
ClosePrefixes ==
    { <<100>>,
      <<100, 89>>,
      <<100, 120, 113>>,
      <<100, 104, 110, 113>>,
      <<100, 30>> }

\* closes of the bars the AdvancedTradingEnv episodes run on
AdvancedClosePrefixes == { <<100>>, <<100, 89>>, <<100, 250>> }

\* how many bars after the lookback window lie on the first calendar day
\* (0: all bars lie on one day)
DayBreaks == {0, 2}

MakeDf(prefix, brk, index) ==
    [ close |-> [i \in 1..NumBars |->
                    IF i <= WindowSize THEN 100
                    ELSE IF i - WindowSize <= Len(prefix) THEN prefix[i - WindowSize]
                    ELSE prefix[Len(prefix)]],
      day   |-> [i \in 1..NumBars |->
                    IF brk > 0 /\ i - WindowSize > brk THEN 2 ELSE 1],
      index |-> index,
      columns |-> {"close"} ]

\* index "datetime": df.index is a DatetimeIndex; index "range": the
\* timestamps are in a 'timestamp' column and df.index is a RangeIndex
\* (the frames collectors/binance.py builds).
Dfs ==
    { MakeDf(p, b, ix) : p \in ClosePrefixes, b \in DayBreaks, ix \in {"datetime", "range"} }

\* frames an episode cannot run on: no rows, fewer rows than the lookback
\* window, no close column (the prices are in a column of another name), no
\* columns at all
EmptyDf == [close |-> <<>>, day |-> <<>>, index |-> "datetime", columns |-> {"close"}]
ShortDf ==
    [ close |-> [i \in 1..(WindowSize - 1) |-> 100], day |-> [i \in 1..(WindowSize - 1) |-> 1],
      index |-> "datetime", columns |-> {"close"} ]
NoCloseDf == [MakeDf(<<100>>, 0, "datetime") EXCEPT !.columns = {"open"}]
NoColumnsDf == [EmptyDf EXCEPT !.columns = {}]
InvalidDfs == {EmptyDf, ShortDf, NoCloseDf, NoColumnsDf}

\* AdvancedTradingEnv never reads df.index
AdvancedDfs == { MakeDf(p, 0, "datetime") : p \in AdvancedClosePrefixes }

\* len(df)
DfLen(df) == Len(df.close)
\* df.iloc[i]["close"]
Close(df, i) == RInt(df.close[i + 1])
\* the calendar date of bar i
DateOf(df, i) == df.day[i + 1]
\* df.index[i]
IndexAt(df, i) ==
    IF df.index = "datetime" THEN <<"date", df.day[i + 1], i>> ELSE <<"label", i, i>>

(***************************************************************************)
(* environment/rewards.py : ProfitReward                                   *)
(***************************************************************************)
hold_penalty == R(1, 100)

\* ProfitReward.calculate
ProfitReward_calculate(action, pos, initial_balance, history) ==
    IF action = 2 /\ pos = 0 /\ Len(history) >= 2
    THEN RMul(RDiv(RSub(history[Len(history)], history[Len(history) - 1]),
                   initial_balance), RInt(100))
    ELSE IF action = 1 /\ pos = 1 THEN R(1, 10)
    ELSE RNeg(hold_penalty)

(***************************************************************************)
(* environment/rewards.py : IncrementalReward                              *)
(***************************************************************************)
\* hold_penalty default of IncrementalReward.__init__
incremental_hold_penalty == R(1, 1000)

\* calculate charging the HOLD penalty on a history of one value as well
IncrementalReward_calculate_AlwaysPenalty(action, pos, initial_balance, history) ==
    RSub(IF Len(history) < 2 THEN RZero
         ELSE RMul(RDiv(RSub(history[Len(history)], history[Len(history) - 1]),
                        initial_balance), RInt(100)),
         IF action = 0 THEN incremental_hold_penalty ELSE RZero)

\* IncrementalReward.calculate
IncrementalReward_calculate(action, pos, initial_balance, history) ==
    IF Len(history) < 2 THEN RZero
    ELSE RSub(RMul(RDiv(RSub(history[Len(history)], history[Len(history) - 1]),
                        initial_balance), RInt(100)),
              IF action = 0 THEN incremental_hold_penalty ELSE RZero)

\* the reward_type argument of TradingEnv.__init__, "profit" by default
RewardType(p) == IF "reward_type" \in DOMAIN p THEN p.reward_type ELSE "profit"

\* self.reward_function.calculate(...) of a TradingEnv built with reward_type
\* "profit" or "incremental"
RewardFunction_calculate(reward_type, action, pos, initial_balance, history) ==
    IF reward_type = "incremental"
    THEN IncrementalReward_calculate(action, pos, initial_balance, history)
    ELSE ProfitReward_calculate(action, pos, initial_balance, history)

(***************************************************************************)
(* State                                                                   *)
(***************************************************************************)
VARIABLES
    params,             \* the constructor's arguments
    started,            \* reset() has been called
    current_step,
    balance,
    holdings,
    position,
    entry_price,
    position_size,      \* AdvancedTradingEnv only
    stop_loss_price,    \* AdvancedTradingEnv only
    risk_manager,
    total_reward,
    trades,
    portfolio_history,
    risk_events,
    results,            \* what the Backtester analysis call returned
    last                \* the last call: its arguments, locals and return value

vars == <<params, started, current_step, balance, holdings, position, entry_price,
          position_size, stop_loss_price, risk_manager, total_reward, trades,
          portfolio_history, risk_events, results, last>>

InitialBalances == {1000}
Commissions == {RZero, R(1, 4)}

\* the default of the features argument of the constructors
DefaultFeatures ==
    { "open", "high", "low", "close", "volume", "rsi_14", "macd", "bbands_upper",
      "bbands_lower", "returns", "volatility" }

\* the exception __init__ raises for the arguments p, None when it returns
ConstructError(p) ==
    IF p.variant # "AdvancedTradingEnv" /\ DefaultFeatures \cap p.df.columns = {}
    THEN "ValueError" ELSE None

\* the exception reset() raises, None when it returns: _get_observation reads
\* self.df.iloc[self.current_step]["close"] with current_step = window_size
ResetError(p) ==
    IF WindowSize >= Len(p.df.close) THEN "IndexError"
    ELSE IF "close" \notin p.df.columns THEN "KeyError"
    ELSE None

EnvVariants == {"TradingEnv", "ContinuousTradingEnv", "AdvancedTradingEnv"}

\* window_size default of TradingEnv.__init__
default_window_size == 50

\* the arguments of Backtester.walk_forward_analysis: len(df), train_size,
\* test_size, step_size
WalkForwardArgs ==
    { [len_df |-> n, train_size |-> tr, test_size |-> te, step_size |-> st] :
        n \in {399, 400, 999, 1000}, tr \in {300, 0}, te \in {100, 52, 51},
        st \in {100, 50, 300} }

\* the bounded sequences over S of length lo..hi
SeqsOf(S, lo, hi) == UNION { [1..n -> S] : n \in lo..hi }

\* portfolio_values handed to PerformanceMetrics.calculate_all_metrics
ValueSeries ==
    SeqsOf({90, 100, 110}, 1, MaxSteps) \cup { <<100, 110, 90, 95, 105>> }

\* trades handed to calculate_all_metrics: records of the TradingEnv trade
\* log (a BUY, a winning, a losing and a break-even SELL)
SampleTrades ==
    { [action |-> "BUY", profit |-> NoneR, profit_pct |-> NoneR],
      [action |-> "SELL", profit |-> RInt(20), profit_pct |-> R(1, 10)],
      [action |-> "SELL", profit |-> RInt(-10), profit_pct |-> R(-1, 20)],
      [action |-> "SELL", profit |-> RZero, profit_pct |-> RZero] }
TradeLogs == SeqsOf(SampleTrades, 0, MaxSteps - 1)

MetricsArgs ==
    { [portfolio_values |-> v, trades |-> <<>>] : v \in ValueSeries }
    \cup { [portfolio_values |-> <<100>>, trades |-> t] : t \in TradeLogs }

\* the arguments of SortinoReward(window=...).calculate(action, position, ...,
\* portfolio_history)
SortinoArgs ==
    { [window |-> w, action |-> a, position |-> p, portfolio_history |-> h] :
        w \in {2, 3}, a \in {0, 1, 2}, p \in {0, 1},
        h \in SeqsOf({90, 100, 110}, 1, MaxSteps) }

\* RewardFactory.available_rewards()
available_rewards == {"profit", "sharpe", "sortino", "multi", "incremental"}

\* the constructor calls the model covers
Params ==
    { [variant |-> "TradingEnv", df |-> d, initial_balance |-> RInt(b), commission |-> c,
       use_risk_management |-> TRUE, risk_config |-> rc,
       enable_short |-> FALSE, enable_stop_loss |-> FALSE] :
         d \in Dfs, b \in InitialBalances, c \in Commissions, rc \in RiskConfigs }
    \cup
    { [variant |-> v, df |-> d, initial_balance |-> RInt(b), commission |-> c,
       use_risk_management |-> FALSE, risk_config |-> RiskConfigDefault,
       enable_short |-> FALSE, enable_stop_loss |-> FALSE] :
         v \in {"TradingEnv", "ContinuousTradingEnv"},
         d \in { x \in Dfs : x.index = "datetime" /\ DateOf(x, NumBars - 1) = 1 },
         b \in InitialBalances, c \in Commissions }
    \cup
    { [variant |-> "TradingEnv", df |-> d, initial_balance |-> RInt(b), commission |-> c,
       use_risk_management |-> TRUE, risk_config |-> RiskConfigDefault,
       enable_short |-> FALSE, enable_stop_loss |-> FALSE,
       reward_type |-> "incremental"] :
         d \in { x \in Dfs : x.index = "datetime" /\ DateOf(x, NumBars - 1) = 1 },
         b \in InitialBalances, c \in Commissions }
    \cup
    { [variant |-> "ContinuousTradingEnv", df |-> d, initial_balance |-> RInt(b),
       commission |-> c, use_risk_management |-> TRUE, risk_config |-> rc,
       enable_short |-> FALSE, enable_stop_loss |-> FALSE] :
         d \in Dfs, b \in InitialBalances, c \in Commissions,
         rc \in {RiskConfigDefault, RiskConfigFactory_create("1d")} \cup CustomConfigs }
    \cup
    { [variant |-> "AdvancedTradingEnv", df |-> d, initial_balance |-> RInt(b),
       commission |-> c, use_risk_management |-> FALSE, risk_config |-> RiskConfigDefault,
       enable_short |-> es, enable_stop_loss |-> TRUE] :
         d \in AdvancedDfs, b \in InitialBalances, c \in Commissions, es \in BOOLEAN }
    \cup
    { [variant |-> v, df |-> d, initial_balance |-> RInt(b), commission |-> RZero,
       use_risk_management |-> (v # "AdvancedTradingEnv"), risk_config |-> RiskConfigDefault,
       enable_short |-> FALSE, enable_stop_loss |-> (v = "AdvancedTradingEnv")] :
         v \in {"TradingEnv", "ContinuousTradingEnv", "AdvancedTradingEnv"},
         d \in InvalidDfs, b \in InitialBalances }
    \cup
    { [variant |-> "Backtester", df |-> EmptyDf, initial_balance |-> RInt(b),
       commission |-> RZero, use_risk_management |-> TRUE, risk_config |-> RiskConfigDefault,
       enable_short |-> FALSE, enable_stop_loss |-> FALSE, args |-> a] :
         b \in InitialBalances, a \in WalkForwardArgs }
    \cup
    { [variant |-> "WalkForwardTestEnv", df |-> EmptyDf, initial_balance |-> RInt(b),
       commission |-> c, use_risk_management |-> TRUE, risk_config |-> RiskConfigDefault,
       enable_short |-> FALSE, enable_stop_loss |-> FALSE, args |-> [reward_type |-> t]] :
         b \in InitialBalances, c \in Commissions, t \in available_rewards }
    \cup
    { [variant |-> "PerformanceMetrics", df |-> EmptyDf, initial_balance |-> RInt(b),
       commission |-> RZero, use_risk_management |-> TRUE, risk_config |-> RiskConfigDefault,
       enable_short |-> FALSE, enable_stop_loss |-> FALSE, args |-> a] :
         b \in InitialBalances, a \in MetricsArgs }
    \cup
    { [variant |-> "SharpeReward", df |-> EmptyDf, initial_balance |-> RInt(b),
       commission |-> RZero, use_risk_management |-> TRUE, risk_config |-> RiskConfigDefault,
       enable_short |-> FALSE, enable_stop_loss |-> FALSE, args |-> a] :
         b \in InitialBalances, a \in SortinoArgs }
    \cup
    { [variant |-> "SortinoReward", df |-> EmptyDf, initial_balance |-> RInt(b),
       commission |-> RZero, use_risk_management |-> TRUE, risk_config |-> RiskConfigDefault,
       enable_short |-> FALSE, enable_stop_loss |-> FALSE, args |-> a] :
         b \in InitialBalances, a \in SortinoArgs }
    \cup
    { [variant |-> "RiskManager", df |-> EmptyDf, initial_balance |-> RInt(b),
       commission |-> RZero, use_risk_management |-> TRUE, risk_config |-> rc,
       enable_short |-> FALSE, enable_stop_loss |-> FALSE, args |-> [volatility |-> v]] :
         b \in InitialBalances, rc \in {RiskConfigDefault} \cup FactoryConfigs,
         v \in Volatilities }

\* previous_op: the call before a reset() ("init": none since construction)
NoResults == [op |-> "none", raised |-> None, windows |-> <<>>]

\* raised: the exception the call ended with, None when it returned;
\* portfolio_value, total_reward: as the info dict of the call reports them
NoCall == [op |-> "init", previous_op |-> "init", raised |-> None, action |-> 0, executed |-> 0,
           risk_signal |-> None, can_trade |-> "OK", reward |-> RZero, terminated |-> FALSE,
           truncated |-> FALSE, portfolio_value |-> RZero,
           total_reward |-> RZero]

\* __init__ of the three environments
Init ==
    /\ params \in Params
    /\ started = FALSE
    /\ current_step = 0
    /\ balance = params.initial_balance
    /\ holdings = RZero
    /\ position = 0
    /\ entry_price = RZero
    /\ position_size = RZero
    /\ stop_loss_price = NoneR
    /\ risk_manager = RiskManagerInit(params.risk_config)
    /\ total_reward = RZero
    /\ trades = <<>>
    /\ portfolio_history = <<>>
    /\ risk_events = <<>>
    /\ results = NoResults
    /\ last = [NoCall EXCEPT !.raised = IF params.variant \in EnvVariants
                                       THEN ConstructError(params) ELSE None]

Terminated_PastLastBar(step) == step >= DfLen(params.df)

\* terminated = self.current_step >= len(self.df) - 1, in step() of the three
\* environments; the loop of Backtester.run_backtest stops on it
Terminated(step) == step >= DfLen(params.df) - 1

\* _get_portfolio_value of TradingEnv and ContinuousTradingEnv at bar step
PortfolioValue(bal, hold, step) == RAdd(bal, RMul(hold, Close(params.df, step)))

\* AdvancedTradingEnv._get_portfolio_value at bar step
AdvPortfolioValue(bal, hold, pos, step) ==
    IF pos = 1 THEN RAdd(bal, RMul(hold, Close(params.df, step)))
    ELSE IF pos = -1 THEN RSub(bal, RMul(RAbs(hold), Close(params.df, step)))
    ELSE bal

\* _normalize_data: the min-max normalised close of bar i (the model's frames
\* carry the close column only)
normalize_data(df, i) ==
    LET closes == { df.close[k] : k \in 1..Len(df.close) }
        min_val == CHOOSE x \in closes : \A y \in closes : x <= y
        max_val == CHOOSE x \in closes : \A y \in closes : x >= y
    IN  IF max_val > min_val
        THEN RSub(RDiv(RInt(2 * (df.close[i + 1] - min_val)), RInt(max_val - min_val)), ROne)
        ELSE RZero

\* _get_observation of the three environments, for the environment fields e
get_observation(e) ==
    LET window == [k \in 1..WindowSize |->
                      normalize_data(params.df, e.current_step - WindowSize + k - 1)]
        current_price == Close(params.df, e.current_step)
        portfolio_value ==
            IF params.variant = "AdvancedTradingEnv"
            THEN AdvPortfolioValue(e.balance, e.holdings, e.position, e.current_step)
            ELSE PortfolioValue(e.balance, e.holdings, e.current_step)
        pnl == RDiv(RSub(portfolio_value, params.initial_balance), params.initial_balance)
        value == RDiv(portfolio_value, params.initial_balance)
        bal == RDiv(e.balance, params.initial_balance)
    IN  IF params.variant = "TradingEnv"
        THEN <<window, <<RInt(e.position), bal, e.holdings, pnl, value>> >>
        ELSE IF params.variant = "ContinuousTradingEnv"
        THEN <<window, <<RInt(e.position), bal,
                         RDiv(RMul(e.holdings, current_price), params.initial_balance),
                         pnl, value>> >>
        ELSE <<window, <<RInt(e.position), e.position_size, bal, RAbs(e.holdings), pnl, value,
                         IF e.stop_loss_price # NoneR /\ e.stop_loss_price # RZero
                         THEN RSub(RDiv(e.stop_loss_price, current_price), ROne)
                         ELSE RZero>> >>

\* reset() of the three environments
Reset ==
    /\ params.variant \in EnvVariants
    /\ last.op = "init" => last.raised = None
    /\ started' = (ResetError(params) = None)
    /\ current_step' = WindowSize
    /\ balance' = params.initial_balance
    /\ holdings' = RZero
    /\ position' = 0
    /\ entry_price' = RZero
    /\ position_size' = RZero
    /\ stop_loss_price' = NoneR
    /\ total_reward' = RZero
    /\ trades' = <<>>
    /\ portfolio_history' = <<>>
    /\ risk_events' = <<>>
    /\ risk_manager' = IF params.use_risk_management
                       THEN RiskManagerReset(risk_manager, params.initial_balance)
                       ELSE risk_manager
    /\ last' = [NoCall EXCEPT !.op = "reset", !.previous_op = last.op,
                              !.raised = ResetError(params),
                              !.portfolio_value = params.initial_balance]
    /\ UNCHANGED <<params, results>>

(***************************************************************************)
(* environment/trading_env.py : TradingEnv.step                            *)
(***************************************************************************)
HOLD == 0
BUY == 1
SELL == 2

\* a trade record of TradingEnv / ContinuousTradingEnv; NoneR: key absent
Trade(step, action, price, amount, profit, profit_pct, bal) ==
    [step |-> step, action |-> action, price |-> price, amount |-> amount,
     profit |-> profit, profit_pct |-> profit_pct, balance |-> bal]

\* a risk event record
RiskEvent(step, type, price, entry, pnl_pct) ==
    [step |-> step, type |-> type, price |-> price, entry_price |-> entry,
     pnl_pct |-> pnl_pct]

\* The risk-management block of TradingEnv.step and ContinuousTradingEnv.step
\* (update_day, update_peak, on_price_update, can_open_trade):
\* the manager afterwards, the action as forced or demoted, the signal and
\* the reason can_open_trade gave.
RiskBlock(action, current_price, portfolio_value_before) ==
    IF ~params.use_risk_management
    THEN [rm |-> risk_manager, action |-> action, signal |-> None, reason |-> "OK"]
    ELSE
    LET timestamp == IndexAt(params.df, current_step)
        rm1 == update_day(risk_manager, timestamp,
                          RAdd(balance, RMul(holdings, current_price)))
        rm2 == update_peak(rm1, portfolio_value_before)
        upd == IF position = 1 THEN on_price_update(rm2, current_price) ELSE <<rm2, None>>
        rm3 == upd[1]
        signal == upd[2]
        action1 == IF signal # None THEN SELL ELSE action
        reason == IF action1 = BUY /\ position = 0
                  THEN can_open_trade(rm3, portfolio_value_before, current_step)
                  ELSE "OK"
        action2 == IF reason # "OK" THEN HOLD ELSE action1
    IN  [rm |-> rm3, action |-> action2, signal |-> signal, reason |-> reason]

\* _execute_action with the fee charged on the entry leg only
TradingExecute_NoExitFee(rm, action, current_price) ==
    IF action = BUY /\ position = 0
    THEN LET position_pct == IF params.use_risk_management
                             THEN calculate_position_size(rm, "none") ELSE ROne
             trade_amount == RMul(balance, position_pct)
             cost == RMul(trade_amount, RSub(ROne, params.commission))
             h == RDiv(cost, current_price)
             b == RSub(balance, trade_amount)
         IN  [balance |-> b, holdings |-> h, position |-> 1, entry_price |-> current_price,
              rm |-> IF params.use_risk_management
                     THEN on_trade_open(rm, current_price, current_step) ELSE rm,
              trades |-> Append(trades,
                          [step |-> current_step, action |-> "BUY", price |-> current_price,
                           amount |-> h, profit |-> NoneR, profit_pct |-> NoneR,
                           balance |-> b])]
    ELSE IF action = SELL /\ position = 1
    THEN LET revenue == RMul(holdings, current_price)
             b == RAdd(balance, revenue)
         IN  [balance |-> b, holdings |-> RZero, position |-> 0, entry_price |-> entry_price,
              rm |-> IF params.use_risk_management THEN on_trade_close(rm) ELSE rm,
              trades |-> Append(trades,
                          [step |-> current_step, action |-> "SELL", price |-> current_price,
                           amount |-> NoneR,
                           profit |-> RSub(revenue, RMul(holdings, entry_price)),
                           profit_pct |-> RDiv(RSub(current_price, entry_price), entry_price),
                           balance |-> b])]
    ELSE [balance |-> balance, holdings |-> holdings, position |-> position,
          entry_price |-> entry_price, rm |-> rm, trades |-> trades]

\* TradingEnv._execute_action without the reward: the fields it leaves
TradingExecute(rm, action, current_price) ==
    IF action = BUY /\ position = 0
    THEN LET position_pct == IF params.use_risk_management
                             THEN calculate_position_size(rm, "none") ELSE ROne
             trade_amount == RMul(balance, position_pct)
             cost == RMul(trade_amount, RSub(ROne, params.commission))
             h == RDiv(cost, current_price)
             b == RSub(balance, trade_amount)
         IN  [balance |-> b, holdings |-> h, position |-> 1, entry_price |-> current_price,
              rm |-> IF params.use_risk_management
                     THEN on_trade_open(rm, current_price, current_step) ELSE rm,
              trades |-> Append(trades,
                          Trade(current_step, "BUY", current_price, h, NoneR, NoneR, b))]
    ELSE IF action = SELL /\ position = 1
    THEN LET revenue == RMul(RMul(holdings, current_price), RSub(ROne, params.commission))
             profit == RSub(revenue, RMul(holdings, entry_price))
             profit_pct == RDiv(RSub(current_price, entry_price), entry_price)
             b == RAdd(balance, revenue)
         IN  [balance |-> b, holdings |-> RZero, position |-> 0, entry_price |-> entry_price,
              rm |-> IF params.use_risk_management THEN on_trade_close(rm) ELSE rm,
              trades |-> Append(trades,
                          Trade(current_step, "SELL", current_price, NoneR, profit,
                                profit_pct, b))]
    ELSE [balance |-> balance, holdings |-> holdings, position |-> position,
          entry_price |-> entry_price, rm |-> rm, trades |-> trades]

\* TradingEnv.step(action): every local is bound once, in the order the
\* code computes it
StepTrading(action) ==
    /\ params.variant = "TradingEnv"
    /\ started
    /\ ~(last.terminated \/ last.truncated)
    /\ \E current_price \in {Close(params.df, current_step)} :
       \E portfolio_value_before \in {PortfolioValue(balance, holdings, current_step)} :
       \E history \in {Append(portfolio_history, portfolio_value_before)} :
       \E rb \in {RiskBlock(action, current_price, portfolio_value_before)} :
       \E ex \in {TradingExecute(rb.rm, rb.action, current_price)} :
       \E reward \in {RewardFunction_calculate(RewardType(params), rb.action, position,
                                               params.initial_balance, history)} :
       \E portfolio_value \in {PortfolioValue(ex.balance, ex.holdings, current_step + 1)} :
           /\ portfolio_history' = history
           /\ risk_events' = IF rb.signal # None
                             THEN Append(risk_events,
                                    RiskEvent(current_step, rb.signal, current_price,
                                      entry_price,
                                      RDiv(RSub(current_price, entry_price), entry_price)))
                             ELSE risk_events
           /\ risk_manager' = ex.rm
           /\ balance' = ex.balance
           /\ holdings' = ex.holdings
           /\ position' = ex.position
           /\ entry_price' = ex.entry_price
           /\ trades' = ex.trades
           /\ current_step' = current_step + 1
           /\ total_reward' = RAdd(total_reward, reward)
           /\ last' = [op |-> "step", action |-> action, executed |-> rb.action,
                       risk_signal |-> rb.signal, can_trade |-> rb.reason,
                       reward |-> reward,
                       terminated |-> Terminated(current_step + 1),
                       truncated |-> RLe(portfolio_value,
                                         RMul(params.initial_balance, R(2, 10))),
                       portfolio_value |-> portfolio_value,
                       total_reward |-> total_reward]
    /\ UNCHANGED <<params, started, position_size, stop_loss_price, results>>

(***************************************************************************)
(* environment/continuous_trading_env.py : ContinuousTradingEnv.step       *)
(***************************************************************************)
\* the values of action[0] the policy hands in, in hundredths
ContinuousActions == {-100, -33, 0, 34, 100}

\* ContinuousTradingEnv._continuous_to_discrete
continuous_to_discrete(action_value) ==
    IF action_value < -33 THEN SELL
    ELSE IF action_value > 33 THEN BUY
    ELSE HOLD

\* _execute_action logging a record for an action that does not apply
ContinuousExecute_LogsHold(rm, action, price) ==
    IF action = BUY /\ position = 0
    THEN LET max_position_value == IF params.use_risk_management
                                   THEN RMul(balance, rm.config.max_position_pct)
                                   ELSE balance
             trade_amount == RMul(max_position_value, RSub(ROne, params.commission))
             h == RDiv(trade_amount, price)
             b == RSub(balance, RDiv(trade_amount, RSub(ROne, params.commission)))
         IN  [balance |-> b, holdings |-> h, position |-> 1, entry_price |-> price,
              rm |-> IF params.use_risk_management
                     THEN on_trade_open(rm, price, current_step) ELSE rm,
              trades |-> Append(trades,
                          Trade(current_step, "buy", price, h, NoneR, NoneR, NoneR))]
    ELSE IF action = SELL /\ position = 1
    THEN LET sell_value == RMul(RMul(holdings, price), RSub(ROne, params.commission))
             pnl == RSub(sell_value, RMul(holdings, entry_price))
             pnl_pct == RDiv(RSub(price, entry_price), entry_price)
         IN  [balance |-> RAdd(balance, sell_value), holdings |-> RZero, position |-> 0,
              entry_price |-> entry_price,
              rm |-> IF params.use_risk_management THEN on_trade_close(rm) ELSE rm,
              trades |-> Append(trades,
                          Trade(current_step, "sell", price, NoneR, pnl, pnl_pct, NoneR))]
    ELSE [balance |-> balance, holdings |-> holdings, position |-> position,
          entry_price |-> entry_price, rm |-> rm,
          trades |-> Append(trades,
                      Trade(current_step, "hold", price, NoneR, NoneR, NoneR, NoneR))]

\* ContinuousTradingEnv._execute_action: the fields it leaves
ContinuousExecute(rm, action, price) ==
    IF action = BUY /\ position = 0
    THEN LET max_position_value == IF params.use_risk_management
                                   THEN RMul(balance, rm.config.max_position_pct)
                                   ELSE balance
             trade_amount == RMul(max_position_value, RSub(ROne, params.commission))
             h == RDiv(trade_amount, price)
             b == RSub(balance, RDiv(trade_amount, RSub(ROne, params.commission)))
         IN  [balance |-> b, holdings |-> h, position |-> 1, entry_price |-> price,
              rm |-> IF params.use_risk_management
                     THEN on_trade_open(rm, price, current_step) ELSE rm,
              trades |-> Append(trades,
                          Trade(current_step, "buy", price, h, NoneR, NoneR, NoneR))]
    ELSE IF action = SELL /\ position = 1
    THEN LET sell_value == RMul(RMul(holdings, price), RSub(ROne, params.commission))
             pnl == RSub(sell_value, RMul(holdings, entry_price))
             pnl_pct == RDiv(RSub(price, entry_price), entry_price)
         IN  [balance |-> RAdd(balance, sell_value), holdings |-> RZero, position |-> 0,
              entry_price |-> entry_price,
              rm |-> IF params.use_risk_management THEN on_trade_close(rm) ELSE rm,
              trades |-> Append(trades,
                          Trade(current_step, "sell", price, NoneR, pnl, pnl_pct, NoneR))]
    ELSE [balance |-> balance, holdings |-> holdings, position |-> position,
          entry_price |-> entry_price, rm |-> rm, trades |-> trades]

\* ContinuousTradingEnv.step(action)
StepContinuous(action) ==
    /\ params.variant = "ContinuousTradingEnv"
    /\ started
    /\ ~(last.terminated \/ last.truncated)
    /\ \E discrete_action \in {continuous_to_discrete(action)} :
       \E current_price \in {Close(params.df, current_step)} :
       \E portfolio_value_before \in {PortfolioValue(balance, holdings, current_step)} :
       \E history \in {Append(portfolio_history, portfolio_value_before)} :
       \E rb \in {RiskBlock(discrete_action, current_price, portfolio_value_before)} :
       \E ex \in {ContinuousExecute(rb.rm, rb.action, current_price)} :
       \E portfolio_value \in {PortfolioValue(ex.balance, ex.holdings, current_step + 1)} :
       \E reward \in {ProfitReward_calculate(rb.action, ex.position,
                                             params.initial_balance, history)} :
           /\ portfolio_history' = history
           /\ risk_events' = IF rb.signal # None
                             THEN Append(risk_events,
                                    RiskEvent(current_step, rb.signal, current_price,
                                      entry_price,
                                      RDiv(RSub(current_price, entry_price), entry_price)))
                             ELSE risk_events
           /\ risk_manager' = ex.rm
           /\ balance' = ex.balance
           /\ holdings' = ex.holdings
           /\ position' = ex.position
           /\ entry_price' = ex.entry_price
           /\ trades' = ex.trades
           /\ current_step' = current_step + 1
           /\ total_reward' = RAdd(total_reward, reward)
           /\ last' = [op |-> "step", action |-> discrete_action, executed |-> rb.action,
                       risk_signal |-> rb.signal, can_trade |-> rb.reason,
                       reward |-> reward,
                       terminated |-> Terminated(current_step + 1),
                       truncated |-> RLt(portfolio_value,
                                         RMul(params.initial_balance, R(5, 10))),
                       portfolio_value |-> portfolio_value,
                       total_reward |-> RAdd(total_reward, reward)]
    /\ UNCHANGED <<params, started, position_size, stop_loss_price, results>>

(***************************************************************************)
(* environment/advanced_trading_env.py : AdvancedTradingEnv.step           *)
(* The position fields are carried in a record st = [balance, holdings,    *)
(* position, position_size, entry_price, stop_loss_price, trades].         *)
(***************************************************************************)
\* a trade record of AdvancedTradingEnv; NoneR / None: key absent
AdvTrade(step, action, price, size, hold, stop, profit, profit_pct, ptype) ==
    [step |-> step, action |-> action, price |-> price, size |-> size,
     holdings |-> hold, stop_loss |-> stop, profit |-> profit,
     profit_pct |-> profit_pct, position_type |-> ptype]

AdvState ==
    [balance |-> balance, holdings |-> holdings, position |-> position,
     position_size |-> position_size, entry_price |-> entry_price,
     stop_loss_price |-> stop_loss_price, trades |-> trades]

\* AdvancedTradingEnv._close_position
close_position(st, price, reason) ==
    IF st.position = 0 THEN st
    ELSE
    LET long == st.position = 1
        revenue == RMul(RMul(st.holdings, price), RSub(ROne, params.commission))
        cost == RMul(RMul(RAbs(st.holdings), price), RAdd(ROne, params.commission))
        profit == IF long
                  THEN RSub(revenue, RMul(st.holdings, st.entry_price))
                  ELSE RSub(RMul(RSub(st.entry_price, price), RAbs(st.holdings)),
                            RMul(cost, params.commission))
        profit_pct == IF long
                      THEN RDiv(RSub(price, st.entry_price), st.entry_price)
                      ELSE RDiv(RSub(st.entry_price, price), st.entry_price)
    IN  [ balance |-> IF long THEN RAdd(st.balance, revenue) ELSE RSub(st.balance, cost),
          holdings |-> RZero,
          position |-> 0,
          position_size |-> RZero,
          entry_price |-> RZero,
          stop_loss_price |-> NoneR,
          trades |-> Append(st.trades,
                       AdvTrade(current_step, "CLOSE_" \o reason, price, NoneR, NoneR,
                                NoneR, profit, profit_pct,
                                IF long THEN "LONG" ELSE "SHORT")) ]

\* AdvancedTradingEnv._open_long
open_long(st, price, size, stop_loss_pct) ==
    IF RLe(size, RZero) THEN st
    ELSE
    LET available == RMul(st.balance, size)
        cost == RMul(available, RSub(ROne, params.commission))
        h == RDiv(cost, price)
        slp == IF params.enable_stop_loss /\ RGt(stop_loss_pct, RZero)
               THEN RMul(price, RSub(ROne, stop_loss_pct)) ELSE NoneR
    IN  [ balance |-> RSub(st.balance, available),
          holdings |-> h,
          position |-> 1,
          position_size |-> size,
          entry_price |-> price,
          stop_loss_price |-> slp,
          trades |-> Append(st.trades,
                       AdvTrade(current_step, "LONG", price, size, h, slp, NoneR, NoneR,
                                None)) ]

\* AdvancedTradingEnv._open_short
open_short(st, price, size, stop_loss_pct) ==
    IF RLe(size, RZero) \/ ~params.enable_short THEN st
    ELSE
    LET available == RMul(st.balance, size)
        quantity == RDiv(available, price)
        slp == IF params.enable_stop_loss /\ RGt(stop_loss_pct, RZero)
               THEN RMul(price, RAdd(ROne, stop_loss_pct)) ELSE NoneR
    IN  [ balance |-> RAdd(st.balance, RMul(available, RSub(ROne, params.commission))),
          holdings |-> RNeg(quantity),
          position |-> -1,
          position_size |-> size,
          entry_price |-> price,
          stop_loss_price |-> slp,
          trades |-> Append(st.trades,
                       AdvTrade(current_step, "SHORT", price, size, RAbs(RNeg(quantity)),
                                slp, NoneR, NoneR, None)) ]

\* the stop-loss check at the head of AdvancedTradingEnv.step
AdvStopLoss(st, current_price) ==
    IF params.enable_stop_loss /\ st.stop_loss_price # NoneR
       /\ \/ st.position = 1 /\ RLe(current_price, st.stop_loss_price)
          \/ st.position = -1 /\ RGe(current_price, st.stop_loss_price)
    THEN close_position(st, current_price, "STOP_LOSS")
    ELSE st

\* the target position AdvancedTradingEnv._execute_action derives
TargetPosition(direction) ==
    LET t == IF RGt(direction, R(3, 10)) THEN 1
             ELSE IF RLt(direction, R(-3, 10)) THEN -1
             ELSE 0
    IN  IF ~params.enable_short /\ t = -1 THEN 0 ELSE t

\* _execute_action opening the new side on the cash held before the close
AdvExecute_OpenBeforeClose(st, target_position, size, stop_loss_pct, current_price) ==
    IF target_position = 0 /\ st.position # 0
    THEN close_position(st, current_price, "CLOSE")
    ELSE IF target_position = 1 /\ st.position # 1
    THEN LET closed == IF st.position = -1 THEN close_position(st, current_price, "FLIP")
                       ELSE st
         IN  open_long([closed EXCEPT !.balance = st.balance],
                       current_price, size, stop_loss_pct)
    ELSE IF target_position = -1 /\ st.position # -1
    THEN LET closed == IF st.position = 1 THEN close_position(st, current_price, "FLIP")
                       ELSE st
         IN  open_short([closed EXCEPT !.balance = st.balance],
                        current_price, size, stop_loss_pct)
    ELSE st

\* the position handling of AdvancedTradingEnv._execute_action
AdvExecute(st, target_position, size, stop_loss_pct, current_price) ==
    IF target_position = 0 /\ st.position # 0
    THEN close_position(st, current_price, "CLOSE")
    ELSE IF target_position = 1 /\ st.position # 1
    THEN open_long(IF st.position = -1 THEN close_position(st, current_price, "FLIP")
                   ELSE st,
                   current_price, size, stop_loss_pct)
    ELSE IF target_position = -1 /\ st.position # -1
    THEN open_short(IF st.position = 1 THEN close_position(st, current_price, "FLIP")
                    ELSE st,
                    current_price, size, stop_loss_pct)
    ELSE st

max_position_size == ROne

\* np.clip(x, lo, hi)
Clip(x, lo, hi) == RMax(lo, RMin(x, hi))

\* the actions [direction, size, stop_loss] the policy hands in
AdvancedActions ==
    { [direction |-> RInt(d), size |-> sz[1], stop_loss |-> sz[2]] :
        d \in {-1, 0, 1},
        sz \in { <<RZero, RZero>>, <<R(1, 2), RZero>>, <<R(1, 2), R(1, 10)>>,
                 <<ROne, RZero>>, <<ROne, R(1, 10)>> } }

\* AdvancedTradingEnv.step(action)
StepAdvanced(action) ==
    /\ params.variant = "AdvancedTradingEnv"
    /\ started
    /\ ~(last.terminated \/ last.truncated)
    /\ \E size \in {Clip(action.size, RZero, max_position_size)} :
       \E stop_loss_pct \in {Clip(action.stop_loss, RZero, R(2, 10))} :
       \E current_price \in {Close(params.df, current_step)} :
       \E portfolio_value_before \in
              {AdvPortfolioValue(balance, holdings, position, current_step)} :
       \E history \in {Append(portfolio_history, portfolio_value_before)} :
       \E st1 \in {AdvStopLoss(AdvState, current_price)} :
       \E target_position \in {TargetPosition(action.direction)} :
       \E st2 \in {AdvExecute(st1, target_position, size, stop_loss_pct, current_price)} :
       \E reward \in {ProfitReward_calculate(target_position + 1, st1.position,
                                             params.initial_balance, history)} :
       \E portfolio_value \in
              {AdvPortfolioValue(st2.balance, st2.holdings, st2.position,
                                 current_step + 1)} :
           /\ portfolio_history' = history
           /\ balance' = st2.balance
           /\ holdings' = st2.holdings
           /\ position' = st2.position
           /\ position_size' = st2.position_size
           /\ entry_price' = st2.entry_price
           /\ stop_loss_price' = st2.stop_loss_price
           /\ trades' = st2.trades
           /\ current_step' = current_step + 1
           /\ total_reward' = RAdd(total_reward, reward)
           /\ last' = [op |-> "step", action |-> action, executed |-> target_position,
                       risk_signal |-> IF Len(st1.trades) > Len(trades)
                                       THEN "STOP_LOSS" ELSE None,
                       can_trade |-> "OK",
                       reward |-> reward,
                       terminated |-> Terminated(current_step + 1),
                       truncated |-> RLe(portfolio_value,
                                         RMul(params.initial_balance, R(1, 10))),
                       portfolio_value |-> portfolio_value,
                       total_reward |-> total_reward]
    /\ UNCHANGED <<params, started, risk_manager, risk_events, results>>

(***************************************************************************)
(* get_trade_statistics of TradingEnv and AdvancedTradingEnv, a read of    *)
(* the environment's state: the keys of the dict it returns, and the       *)
(* values of final_portfolio_value and total_return.                       *)
(* ContinuousTradingEnv does not define the method.                        *)
(***************************************************************************)
\* the trades the statistics count as completed: action == "SELL" in
\* TradingEnv, "CLOSE" in action in AdvancedTradingEnv
IsCompletedTrade(t) ==
    IF params.variant = "AdvancedTradingEnv"
    THEN t.action \in {"CLOSE_CLOSE", "CLOSE_FLIP", "CLOSE_STOP_LOSS"}
    ELSE t.action = "SELL"

StatisticsKeys ==
    {"total_trades", "completed_trades", "winning_trades", "losing_trades", "win_rate",
     "total_profit", "avg_profit", "avg_profit_pct", "max_profit", "max_loss",
     "final_portfolio_value", "total_return"}

get_trade_statistics ==
    LET value == IF params.variant = "AdvancedTradingEnv"
                 THEN AdvPortfolioValue(balance, holdings, position, current_step)
                 ELSE PortfolioValue(balance, holdings, current_step)
    IN  IF params.variant = "ContinuousTradingEnv"
        THEN [raised |-> "AttributeError", keys |-> {}]
        ELSE IF Len(trades) = 0
        THEN [raised |-> None, keys |-> {"total_trades"}, total_trades |-> 0]
        ELSE IF Len(SelectSeq(trades, IsCompletedTrade)) = 0
        THEN [raised |-> None, keys |-> {"total_trades", "completed_trades"},
              total_trades |-> Len(trades)]
        ELSE [raised |-> None,
              keys |-> StatisticsKeys \cup
                       (IF params.variant = "AdvancedTradingEnv"
                        THEN {"long_trades", "short_trades"} ELSE {}),
              total_trades |-> Len(trades),
              final_portfolio_value |-> value,
              total_return |-> RDiv(RSub(value, params.initial_balance),
                                    params.initial_balance)]

(***************************************************************************)
(* backtesting/backtester.py : Backtester.walk_forward_analysis            *)
(***************************************************************************)
\* the window dict of one pass of the loop
Window(start_idx, train_size, test_size) ==
    [ train_start |-> start_idx, train_end |-> start_idx + train_size,
      test_start |-> start_idx + train_size,
      test_end |-> start_idx + train_size + test_size ]

\* the backtest of one test slice: TradingEnv(df=test_df, ...) with the
\* default window_size, reset(), then steps to the end of the slice.  reset()
\* reads bar window_size and the first step reads bar window_size + 1, so a
\* slice of fewer than window_size + 2 bars ends in an IndexError.
TestSliceError(test_size) ==
    IF test_size < default_window_size + 2 THEN "IndexError" ELSE None

RECURSIVE WalkForwardLoop_StrictBound(_, _, _)
WalkForwardLoop_StrictBound(a, start_idx, windows) ==
    IF start_idx + a.train_size + a.test_size < a.len_df
    THEN IF TestSliceError(a.test_size) # None
         THEN [op |-> "walk_forward_analysis", raised |-> TestSliceError(a.test_size),
               windows |-> <<>>]
         ELSE WalkForwardLoop_StrictBound(a, start_idx + a.step_size,
                  Append(windows, Window(start_idx, a.train_size, a.test_size)))
    ELSE [op |-> "walk_forward_analysis", raised |-> None, windows |-> windows]

\* the while loop of walk_forward_analysis from start_idx on; windows: the
\* window dicts of the results so far
RECURSIVE WalkForwardLoop(_, _, _)
WalkForwardLoop(a, start_idx, windows) ==
    IF start_idx + a.train_size + a.test_size <= a.len_df
    THEN IF TestSliceError(a.test_size) # None
         THEN [op |-> "walk_forward_analysis", raised |-> TestSliceError(a.test_size),
               windows |-> <<>>]
         ELSE WalkForwardLoop(a, start_idx + a.step_size,
                  Append(windows, Window(start_idx, a.train_size, a.test_size)))
    ELSE [op |-> "walk_forward_analysis", raised |-> None, windows |-> windows]

\* Backtester.walk_forward_analysis(df, agent, train_size, test_size, step_size)
walk_forward_analysis ==
    /\ params.variant = "Backtester"
    /\ results' = WalkForwardLoop(params.args, 0, <<>>)
    /\ UNCHANGED <<params, started, current_step, balance, holdings, position,
                   entry_price, position_size, stop_loss_price, risk_manager,
                   total_reward, trades, portfolio_history, risk_events, last>>

(***************************************************************************)
(* environment/rewards.py : RewardFactory, and the environment             *)
(* walk_forward_analysis builds for a test slice                           *)
(***************************************************************************)
\* RewardFactory.create(reward_type): the class of the calculator and the
\* name its __init__ sets
RewardFactory_create(reward_type) ==
    CASE reward_type = "profit"      -> [kind |-> "ProfitReward", name |-> "profit"]
      [] reward_type = "sharpe"      -> [kind |-> "SharpeReward", name |-> "sharpe"]
      [] reward_type = "sortino"     -> [kind |-> "SortinoReward", name |-> "sortino"]
      [] reward_type = "multi"       -> [kind |-> "MultiObjectiveReward",
                                         name |-> "multi_objective"]
      [] reward_type = "incremental" -> [kind |-> "IncrementalReward",
                                         name |-> "incremental"]
      [] OTHER                       -> [kind |-> "ProfitReward", name |-> "profit"]

\* test_env = TradingEnv(df=test_df, initial_balance=self.env.initial_balance,
\* commission=self.env.commission, reward_type=self.env.reward_function.name)
\* in walk_forward_analysis, self.env being a TradingEnv(reward_type=...)
BuildTestEnv ==
    /\ params.variant = "WalkForwardTestEnv"
    /\ \E env_reward \in {RewardFactory_create(params.args.reward_type)} :
          results' =
            [ op |-> "test_env", raised |-> None, windows |-> <<>>,
              env_reward_function |-> env_reward,
              initial_balance |-> params.initial_balance,
              commission |-> params.commission,
              reward_function |-> RewardFactory_create(env_reward.name) ]
    /\ UNCHANGED <<params, started, current_step, balance, holdings, position,
                   entry_price, position_size, stop_loss_price, risk_manager,
                   total_reward, trades, portfolio_history, risk_events, last>>

(***************************************************************************)
(* backtesting/metrics.py : PerformanceMetrics.  Floats that are square    *)
(* roots are carried by their square: a ratio num / sqrt(var) * sqrt(252)  *)
(* is the value <<"ratio", num, var>>.                                     *)
(***************************************************************************)
Inf == <<"inf">>
Absent == <<"absent">>
Value(x) == <<"value", x>>

RECURSIVE RSum(_)
RSum(xs) == IF xs = <<>> THEN RZero ELSE RAdd(xs[1], RSum(Tail(xs)))

\* np.mean
Mean(xs) == RDiv(RSum(xs), RInt(Len(xs)))

\* np.std squared
Variance(xs) ==
    Mean([k \in 1..Len(xs) |-> RMul(RSub(xs[k], Mean(xs)), RSub(xs[k], Mean(xs)))])

\* np.diff(values) / values[:-1]
Returns(values) ==
    [k \in 1..(Len(values) - 1) |-> R(values[k + 1] - values[k], values[k])]

risk_free_rate == RZero

\* PerformanceMetrics._calculate_risk_metrics: sharpe_ratio and sortino_ratio
calculate_risk_metrics(portfolio_values) ==
    LET returns == Returns(portfolio_values)
        excess == RSub(Mean(returns), RDiv(risk_free_rate, RInt(252)))
        IsNegative(x) == RLt(x, RZero)
        downside_returns == SelectSeq(returns, IsNegative)
    IN  IF Len(returns) = 0
        THEN [sharpe_ratio |-> Absent, sortino_ratio |-> Absent]
        ELSE [ sharpe_ratio |->
                   IF RGt(Variance(returns), RZero)
                   THEN <<"ratio", excess, Variance(returns)>>
                   ELSE Value(RZero),
               sortino_ratio |->
                   IF Len(downside_returns) > 0
                   THEN IF RGt(Variance(downside_returns), RZero)
                        THEN <<"ratio", excess, Variance(downside_returns)>>
                        ELSE Value(RZero)
                   ELSE Inf ]

\* PerformanceMetrics._calculate_trading_metrics: the counts and profit_factor
calculate_trading_metrics(trade_log) ==
    LET IsSell(t) == t.action = "SELL"
        sell_trades == SelectSeq(trade_log, IsSell)
        profits == [k \in 1..Len(sell_trades) |-> sell_trades[k].profit]
        IsWin(x) == RGt(x, RZero)
        IsLoss(x) == RLe(x, RZero)
        winning_trades == SelectSeq(profits, IsWin)
        losing_trades == SelectSeq(profits, IsLoss)
    IN  IF Len(trade_log) = 0
        THEN [total_trades |-> 0, completed_trades |-> 0, profit_factor |-> Absent]
        ELSE IF Len(sell_trades) = 0
        THEN [total_trades |-> Len(trade_log), completed_trades |-> 0,
              profit_factor |-> Absent]
        ELSE [ total_trades |-> Len(trade_log),
               completed_trades |-> Len(sell_trades),
               profit_factor |->
                   IF Len(winning_trades) > 0 /\ Len(losing_trades) > 0
                   THEN IF RGt(RAbs(RSum(losing_trades)), RZero)
                        THEN Value(RDiv(RSum(winning_trades), RAbs(RSum(losing_trades))))
                        ELSE Inf
                   ELSE Value(RZero) ]

\* np.maximum.accumulate(values)[t], t counted from 1
RunningMax(values, t) ==
    CHOOSE m \in { values[k] : k \in 1..t } : \A k \in 1..t : values[k] <= m

\* the drawdown series at t
Drawdown(values, t) == R(RunningMax(values, t) - values[t], RunningMax(values, t))

\* PerformanceMetrics._calculate_drawdown_metrics
calculate_drawdown_metrics(portfolio_values) ==
    LET n == Len(portfolio_values)
        in_drawdown(t) == RGt(Drawdown(portfolio_values, t), RZero)
        drawdown_starts == { t \in 1..n : in_drawdown(t) /\ (t = 1 \/ ~in_drawdown(t - 1)) }
        drawdown_ends == { t \in 1..n : in_drawdown(t) /\ (t = n \/ ~in_drawdown(t + 1)) }
        EndOf(s) == CHOOSE e \in drawdown_ends :
                        e >= s /\ \A f \in drawdown_ends : f >= s => e <= f
        drawdown_durations == { EndOf(s) - s : s \in drawdown_starts }
        dds == { Drawdown(portfolio_values, t) : t \in 1..n }
    IN  [ max_drawdown |-> CHOOSE d \in dds : \A e \in dds : RLe(e, d),
          max_drawdown_duration_steps |->
              IF drawdown_starts = {} THEN 0
              ELSE CHOOSE d \in drawdown_durations : \A e \in drawdown_durations : e <= d ]

\* PerformanceMetrics.calculate_all_metrics(portfolio_values, trades, ...)
calculate_all_metrics ==
    /\ params.variant = "PerformanceMetrics"
    /\ results' =
          [ op |-> "calculate_all_metrics", raised |-> None, windows |-> <<>>,
            risk |-> calculate_risk_metrics(params.args.portfolio_values),
            trading |-> calculate_trading_metrics(params.args.trades),
            drawdown |-> calculate_drawdown_metrics(params.args.portfolio_values) ]
    /\ UNCHANGED <<params, started, current_step, balance, holdings, position,
                   entry_price, position_size, stop_loss_price, risk_manager,
                   total_reward, trades, portfolio_history, risk_events, last>>

(***************************************************************************)
(* environment/rewards.py : SortinoReward                                  *)
(***************************************************************************)
\* hold_penalty default of SortinoReward.__init__
sortino_hold_penalty == R(1, 100)

\* the last n elements of xs (xs[-n:])
LastN(xs, n) == IF Len(xs) <= n THEN xs ELSE SubSeq(xs, Len(xs) - n + 1, Len(xs))

\* SortinoReward.calculate: the reward is before_penalty - penalty, with
\* before_penalty a value or the float num / sqrt(var), carried as
\* <<"quotient", num, var>>
SortinoReward_calculate(window, action, pos, initial_balance, history) ==
    LET n == Len(history)
        returns == Returns(LastN(history, window))
        IsNegative(x) == RLt(x, RZero)
        downside_returns == SelectSeq(returns, IsNegative)
        mean_return == Mean(returns)
        limit == IF window > 2 THEN window ELSE 2
    IN  IF n < limit
        THEN [ branch |-> "fallback", penalty |-> RZero,
               before_penalty |->
                   IF action = 2 /\ pos = 0 /\ n >= 2
                   THEN Value(RMul(RDiv(RInt(history[n] - history[n - 1]), initial_balance),
                                   RInt(100)))
                   ELSE IF action = 1 THEN Value(R(1, 10))
                   ELSE Value(RNeg(sortino_hold_penalty)) ]
        ELSE IF Len(returns) < 2
        THEN [ branch |-> "few_returns", penalty |-> RZero,
               before_penalty |-> Value(RNeg(sortino_hold_penalty)) ]
        ELSE [ branch |-> "sortino",
               penalty |-> IF action = 0 THEN sortino_hold_penalty ELSE RZero,
               before_penalty |->
                   IF Len(downside_returns) = 0
                   THEN Value(RMul(RMul(mean_return, RInt(10)), RInt(10)))
                   ELSE IF Variance(downside_returns) = RZero
                   THEN Value(RZero)
                   ELSE <<"quotient", RMul(RSub(mean_return, risk_free_rate), RInt(10)),
                          Variance(downside_returns)>> ]

\* reward_function.calculate(...) of a SortinoReward
SortinoCalculate ==
    /\ params.variant = "SortinoReward"
    /\ results' =
          [ op |-> "SortinoReward.calculate", raised |-> None, windows |-> <<>>,
            reward |-> SortinoReward_calculate(params.args.window, params.args.action,
                           params.args.position, params.initial_balance,
                           params.args.portfolio_history) ]
    /\ UNCHANGED <<params, started, current_step, balance, holdings, position,
                   entry_price, position_size, stop_loss_price, risk_manager,
                   total_reward, trades, portfolio_history, risk_events, last>>

(***************************************************************************)
(* environment/rewards.py : SharpeReward                                   *)
(***************************************************************************)
\* hold_penalty default of SharpeReward.__init__
sharpe_hold_penalty == R(1, 100)

\* SharpeReward.calculate, the result carried as SortinoReward_calculate's
SharpeReward_calculate(window, action, pos, initial_balance, history) ==
    LET n == Len(history)
        returns == Returns(LastN(history, window))
        mean_return == Mean(returns)
        limit == IF window > 2 THEN window ELSE 2
    IN  IF n < limit
        THEN [ branch |-> "fallback", penalty |-> RZero,
               before_penalty |->
                   IF action = 2 /\ pos = 0 /\ n >= 2
                   THEN Value(RMul(RDiv(RInt(history[n] - history[n - 1]), initial_balance),
                                   RInt(100)))
                   ELSE IF action = 1 THEN Value(R(1, 10))
                   ELSE Value(RNeg(sharpe_hold_penalty)) ]
        ELSE IF Len(returns) < 2
        THEN [ branch |-> "few_returns", penalty |-> RZero,
               before_penalty |-> Value(RNeg(sharpe_hold_penalty)) ]
        ELSE [ branch |-> "sharpe",
               penalty |-> IF action = 0 THEN sharpe_hold_penalty ELSE RZero,
               before_penalty |->
                   IF Variance(returns) = RZero
                   THEN Value(RZero)
                   ELSE <<"quotient", RMul(RSub(mean_return, risk_free_rate), RInt(10)),
                          Variance(returns)>> ]

\* reward_function.calculate(...) of a SharpeReward
SharpeCalculate ==
    /\ params.variant = "SharpeReward"
    /\ results' =
          [ op |-> "SharpeReward.calculate", raised |-> None, windows |-> <<>>,
            reward |-> SharpeReward_calculate(params.args.window, params.args.action,
                           params.args.position, params.initial_balance,
                           params.args.portfolio_history) ]
    /\ UNCHANGED <<params, started, current_step, balance, holdings, position,
                   entry_price, position_size, stop_loss_price, risk_manager,
                   total_reward, trades, portfolio_history, risk_events, last>>

\* RiskManager(config).calculate_position_size(balance, current_price, volatility)
CalculatePositionSize ==
    /\ params.variant = "RiskManager"
    /\ results' =
          [ op |-> "calculate_position_size", raised |-> None, windows |-> <<>>,
            position_size |-> calculate_position_size(risk_manager, params.args.volatility) ]
    /\ UNCHANGED <<params, started, current_step, balance, holdings, position,
                   entry_price, position_size, stop_loss_price, risk_manager,
                   total_reward, trades, portfolio_history, risk_events, last>>

Next ==
    \/ Reset
    \/ CalculatePositionSize
    \/ walk_forward_analysis
    \/ calculate_all_metrics
    \/ BuildTestEnv
    \/ SortinoCalculate
    \/ SharpeCalculate
    \/ \E action \in {HOLD, BUY, SELL} : StepTrading(action)
    \/ \E action \in ContinuousActions : StepContinuous(action)
    \/ \E action \in AdvancedActions : StepAdvanced(action)

Spec == Init /\ [][Next]_vars

(***************************************************************************)
(* Properties                                                              *)
(***************************************************************************)
\* the transition is a step() call
IsStep == last'.op = "step" /\ current_step' = current_step + 1

\* first bar an episode acts on
FirstStep == WindowSize

\* the records of the trade log that open / close a position
IsOpen(t) == t.action \in {"BUY", "buy", "LONG", "SHORT"}
IsClose(t) == ~IsOpen(t)

\* C1: after every step() of every variant, the position is FLAT iff
\* holdings == 0 iff entry_price == 0.
C1_FlatIffZero ==
    last.op = "step" =>
        /\ (position = 0) <=> (holdings = RZero)
        /\ (holdings = RZero) <=> (entry_price = RZero)

\* C2: in TradingEnv with risk management, a step that starts LONG on a bar
\* whose close c has (c - entry_price)/entry_price <= -stop_loss_pct sells the
\* whole position at c, ends FLAT and records a STOP_LOSS risk event with
\* pnl_pct = (c - entry_price)/entry_price, whatever action was requested;
\* and no LONG survives a step whose close is at or below
\* entry_price*(1 - stop_loss_pct) or at or above entry_price*(1 + take_profit_pct).
C2_StopLossForcesSell ==
    [][ ( /\ IsStep
          /\ params.variant = "TradingEnv"
          /\ params.use_risk_management
          /\ position = 1 )
        =>
        LET c == Close(params.df, current_step)
            cfg == params.risk_config
            pnl == RDiv(RSub(c, entry_price), entry_price)
            ev == risk_events'[Len(risk_events')]
            tr == trades'[Len(trades')]
        IN  /\ RLe(pnl, RNeg(cfg.stop_loss_pct)) =>
                /\ position' = 0
                /\ holdings' = RZero
                /\ balance' = RAdd(balance, RMul(RMul(holdings, c),
                                                 RSub(ROne, params.commission)))
                /\ Len(trades') = Len(trades) + 1
                /\ tr.action = "SELL" /\ tr.price = c /\ tr.step = current_step
                /\ Len(risk_events') = Len(risk_events) + 1
                /\ ev.type = "STOP_LOSS" /\ ev.pnl_pct = pnl /\ ev.step = current_step
            /\ ( \/ RLe(c, RMul(entry_price, RSub(ROne, cfg.stop_loss_pct)))
                 \/ RGe(c, RMul(entry_price, RAdd(ROne, cfg.take_profit_pct))) )
               => position' = 0
      ]_vars

\* C2 witness: entry 100, stop_loss_pct 0.10, close 89: STOP_LOSS with
\* pnl_pct -0.11 although BUY was requested.
C2_Witness ==
    /\ params.variant = "TradingEnv"
    /\ params.risk_config = RiskConfigDefault
    /\ last.op = "step"
    /\ last.action = BUY
    /\ last.risk_signal = "STOP_LOSS"
    /\ position = 0
    /\ Len(risk_events) = 1
    /\ risk_events[1].entry_price = RInt(100)
    /\ risk_events[1].price = RInt(89)
    /\ risk_events[1].pnl_pct = R(-11, 100)

\* C3: in every variant, a step in which a risk trigger force-closes the
\* position does not execute the requested action: the position is FLAT at
\* the end of the step and the forced close is the step's only trade.
C3_ForcedCloseOverrides ==
    (last.op = "step" /\ last.risk_signal # None) =>
        /\ position = 0
        /\ IsClose(trades[Len(trades)])

\* the closing records of a trade log and the sum of their profits
RECURSIVE SumProfits(_)
SumProfits(log) ==
    IF log = <<>> THEN RZero
    ELSE LET t == log[Len(log)]
             rest == SumProfits(SubSeq(log, 1, Len(log) - 1))
         IN  IF IsClose(t) THEN RAdd(rest, t.profit) ELSE rest

\* the episode so far is: open a LONG on the first bar, close it (on request)
\* on the next bar, at the same close price
RoundTripAtSamePrice ==
    /\ params.variant \in {"TradingEnv", "AdvancedTradingEnv"}
    /\ last.op = "step"
    /\ current_step = FirstStep + 2
    /\ Len(trades) = 2
    /\ trades[1].action \in {"BUY", "LONG"} /\ trades[1].step = FirstStep
    /\ trades[2].action \in {"SELL", "CLOSE_CLOSE"} /\ trades[2].step = FirstStep + 1
    /\ trades[1].price = trades[2].price

OneMinusC2 == RMul(RSub(ROne, params.commission), RSub(ROne, params.commission))

\* C4 as stated: opening a LONG from the initial state and closing it on the
\* next step at the same price leaves balance = initial_balance * (1 - c)^2.
C4_RoundTripBalance_Original ==
    RoundTripAtSamePrice => balance = RMul(params.initial_balance, OneMinusC2)

\* the fraction of the cash balance the open invested
InvestedFraction ==
    IF params.variant = "AdvancedTradingEnv" THEN trades[1].size
    ELSE IF params.use_risk_management
    THEN LET cfg == params.risk_config
         IN  RMax(RMin(cfg.max_position_pct,
                       RDiv(cfg.max_risk_per_trade_pct, cfg.stop_loss_pct)),
                  cfg.min_position_pct)
    ELSE ROne

\* C4 amended: the round trip leaves
\* balance = initial_balance * ((1 - f) + f * (1 - c)^2), f the fraction of the
\* balance the open invests (calculate_position_size() with risk management,
\* 1 without, the action's size in AdvancedTradingEnv); it is
\* initial_balance * (1 - c)^2 exactly when f = 1 or c = 0.
C4_RoundTripBalance ==
    RoundTripAtSamePrice =>
        LET f == InvestedFraction
        IN  /\ balance = RMul(params.initial_balance,
                              RAdd(RSub(ROne, f), RMul(f, OneMinusC2)))
            /\ (f = ROne => balance = RMul(params.initial_balance, OneMinusC2))

\* C4 witness: a round trip with the whole balance invested and a non-zero fee
C4_Witness ==
    /\ RoundTripAtSamePrice
    /\ params.variant = "TradingEnv"
    /\ ~params.use_risk_management
    /\ params.commission = R(1, 4)
    /\ balance = RMul(params.initial_balance, R(9, 16))

\* C5: whenever the environment is FLAT, the sum of the profits recorded in
\* the closing trade records equals cash balance - initial_balance (each
\* recorded profit is net of the commission of both legs).
C5_ProfitNetOfBothLegs ==
    (last.op = "step" /\ position = 0) =>
        SumProfits(trades) = RSub(balance, params.initial_balance)

\* the step runs the risk-management block of TradingEnv / ContinuousTradingEnv
IsRiskManagedStep ==
    /\ IsStep
    /\ params.variant \in {"TradingEnv", "ContinuousTradingEnv"}
    /\ params.use_risk_management

\* C6: in TradingEnv and ContinuousTradingEnv with risk management, no
\* position is opened at a step where the pre-action portfolio value lies
\* more than max_drawdown_pct below peak_balance or more than
\* max_daily_loss_pct below daily_start_balance: a BUY is demoted to HOLD and
\* cash balance, holdings, position, entry price and trade log are unchanged.
C6_NoOpenBeyondLossLimits ==
    [][ IsRiskManagedStep =>
        LET value == RAdd(balance, RMul(holdings, Close(params.df, current_step)))
            cfg == params.risk_config
            peak == risk_manager'.peak_balance
            day_start == risk_manager'.daily_start_balance
            beyond ==
                \/ RLt(value, RMul(peak, RSub(ROne, cfg.max_drawdown_pct)))
                \/ RLt(value, RMul(day_start, RSub(ROne, cfg.max_daily_loss_pct)))
        IN  beyond =>
              /\ (Len(trades') > Len(trades)) => IsClose(trades'[Len(trades')])
              /\ (position' # 1 \/ position = 1)
              /\ (position = 0 /\ last'.action = BUY) =>
                    /\ last'.executed = HOLD
                    /\ UNCHANGED <<balance, holdings, position, entry_price, trades>>
      ]_vars

\* C6 witness: a BUY requested while FLAT was demoted for the daily loss
C6_Witness ==
    /\ params.variant \in {"TradingEnv", "ContinuousTradingEnv"}
    /\ last.op = "step"
    /\ last.action = BUY
    /\ last.executed = HOLD
    /\ last.can_trade = "Max Daily Loss"
    /\ position = 0
    /\ RLt(balance, RMul(risk_manager.daily_start_balance,
                         RSub(ROne, params.risk_config.max_daily_loss_pct)))

\* C7: in TradingEnv with risk management, a position is never opened fewer
\* than min_trade_interval_candles steps after the most recent trade, a trade
\* being any open or close record of the trade log.
C7_MinIntervalSinceLastTrade ==
    (params.variant = "TradingEnv" /\ params.use_risk_management) =>
        \A i \in 2..Len(trades) :
            IsOpen(trades[i]) =>
                trades[i].step - trades[i - 1].step
                    >= params.risk_config.min_trade_interval_candles

\* the positions opened on bars of calendar date d
OpensOnDate(d) ==
    { i \in 1..Len(trades) : IsOpen(trades[i]) /\ DateOf(params.df, trades[i].step) = d }

\* C8: in TradingEnv and ContinuousTradingEnv with risk management, the
\* number of positions opened on bars of one calendar date never exceeds
\* max_trades_per_day, whether the timestamps are the index of the bar data
\* or a 'timestamp' column.
C8_MaxTradesPerDate ==
    (params.variant \in {"TradingEnv", "ContinuousTradingEnv"}
        /\ params.use_risk_management) =>
        \A d \in {1, 2} :
            Cardinality(OpensOnDate(d)) <= params.risk_config.max_trades_per_day

\* a TradingEnv episode on the closes 100, 120, 113 that bought on the 100 bar
\* and in which the policy never closed the position itself (every SELL of the
\* trade log was forced by a risk event of the same step)
EntryAt100Then120Then113 ==
    /\ params.variant = "TradingEnv"
    /\ params.use_risk_management
    /\ DfLen(params.df) >= FirstStep + 3
    /\ \A k \in 0..2 : Close(params.df, FirstStep + k) = RInt(<<100, 120, 113>>[k + 1])
    /\ last.op = "step"
    /\ Len(trades) >= 1
    /\ trades[1].action = "BUY" /\ trades[1].step = FirstStep
    /\ \A i \in 1..Len(trades) :
          trades[i].action = "SELL" =>
              \E j \in 1..Len(risk_events) : risk_events[j].step = trades[i].step

\* C9 as stated: with every RiskConfig field at its default, a LONG entered at
\* 100 is still open after the 120 bar, trailing active with
\* highest_since_entry = 120, and is force-closed on the 113 bar with reason
\* TRAILING_STOP.
C9_TrailingStop_Original ==
    (EntryAt100Then120Then113 /\ params.risk_config = RiskConfigDefault) =>
        /\ current_step = FirstStep + 2 =>
              /\ position = 1
              /\ risk_manager.trailing_stop_active
              /\ risk_manager.highest_since_entry = RInt(120)
        /\ current_step = FirstStep + 3 =>
              /\ position = 0
              /\ Len(risk_events) = 1
              /\ risk_events[1].type = "TRAILING_STOP"
              /\ risk_events[1].step = FirstStep + 2

\* C9 amended: with trailing_activation_pct = 0.08, trailing_stop_pct = 0.05
\* and take_profit_pct = 0.40 (the other fields at their defaults) the LONG
\* entered at 100 is still open after the 120 bar, trailing active with
\* highest_since_entry = 120, and is force-closed on the 113 bar with reason
\* TRAILING_STOP; with every field at its default (take_profit_pct = 0.20) it
\* is force-closed on the 120 bar with reason TAKE_PROFIT.
C9_TrailingStop ==
    EntryAt100Then120Then113 =>
        /\ params.risk_config = ConfigTp40 =>
              /\ current_step = FirstStep + 2 =>
                    /\ position = 1
                    /\ risk_manager.trailing_stop_active
                    /\ risk_manager.highest_since_entry = RInt(120)
              /\ current_step = FirstStep + 3 =>
                    /\ position = 0
                    /\ Len(risk_events) = 1
                    /\ risk_events[1].type = "TRAILING_STOP"
                    /\ risk_events[1].step = FirstStep + 2
                    /\ risk_events[1].price = RInt(113)
        /\ (params.risk_config = RiskConfigDefault /\ current_step >= FirstStep + 2) =>
                    /\ Len(risk_events) >= 1 /\ Len(trades) >= 2
                    /\ risk_events[1].type = "TAKE_PROFIT"
                    /\ risk_events[1].step = FirstStep + 1
                    /\ trades[2].action = "SELL" /\ trades[2].price = RInt(120)

\* C9 witness: the trailing stop closed the position on the 113 bar
C9_Witness ==
    /\ EntryAt100Then120Then113
    /\ params.risk_config = ConfigTp40
    /\ current_step = FirstStep + 3
    /\ last.risk_signal = "TRAILING_STOP"
    /\ position = 0

\* C10: while a position stays open in TradingEnv, get_stop_loss_price() never
\* decreases from one step to the next, trailing_stop_active never reverts to
\* false and highest_since_entry never decreases, for the default RiskConfig
\* and every configuration of RiskConfigFactory.create.
C10_StopOnlyTightens ==
    [][ ( /\ IsStep
          /\ params.variant = "TradingEnv"
          /\ params.use_risk_management
          /\ position = 1
          /\ position' = 1 )
        =>
          /\ RGe(get_stop_loss_price(risk_manager'), get_stop_loss_price(risk_manager))
          /\ (risk_manager.trailing_stop_active => risk_manager'.trailing_stop_active)
          /\ RGe(risk_manager'.highest_since_entry, risk_manager.highest_since_entry)
      ]_vars

\* C10 witness: an open position whose stop has been tightened twice: the
\* trailing stop is active and the highest close lies above the close that
\* activated it
C10_Witness ==
    /\ params.variant = "TradingEnv"
    /\ params.risk_config = RiskConfigDefault
    /\ last.op = "step"
    /\ position = 1
    /\ risk_manager.trailing_stop_active
    /\ risk_manager.entry_price = RInt(100)
    /\ risk_manager.highest_since_entry = RInt(113)
    /\ get_stop_loss_price(risk_manager) = R(10735, 100)

\* C11: in every state AdvancedTradingEnv reaches, the sign of holdings
\* matches the position: LONG implies holdings > 0 and SHORT implies
\* holdings < 0, also right after a flip.
C11_HoldingsSignMatchesPosition ==
    params.variant = "AdvancedTradingEnv" =>
        /\ position = 1 => RGt(holdings, RZero)
        /\ position = -1 => RLt(holdings, RZero)

\* C12: in TradingEnv with the Profit reward the reward of a step follows the
\* transition the step executed: +0.1 for a step that opened a position,
\* 100 * (value[t] - value[t-1]) / initial_balance for a step that closed
\* one, and -hold_penalty for a step that traded nothing.
C12_RewardFollowsExecutedTransition ==
    (params.variant = "TradingEnv" /\ last.op = "step") =>
        LET n == Len(trades)
            h == Len(portfolio_history)
            traded == n > 0 /\ trades[n].step = current_step - 1
        IN  IF traded /\ trades[n].action = "BUY"
            THEN last.reward = R(1, 10)
            ELSE IF traded /\ trades[n].action = "SELL"
            THEN last.reward =
                   RDiv(RMul(RInt(100), RSub(portfolio_history[h], portfolio_history[h - 1])),
                        params.initial_balance)
            ELSE last.reward = RNeg(hold_penalty)

\* the fields of the environment object (the RiskManager's included)
EnvFields ==
    [ current_step |-> current_step, balance |-> balance, holdings |-> holdings,
      position |-> position, entry_price |-> entry_price,
      position_size |-> position_size, stop_loss_price |-> stop_loss_price,
      total_reward |-> total_reward, trades |-> trades,
      portfolio_history |-> portfolio_history, risk_events |-> risk_events,
      risk_manager |-> risk_manager ]

\* the fields reset() leaves on an environment that was just constructed
FreshResetFields ==
    [ current_step |-> WindowSize, balance |-> params.initial_balance,
      holdings |-> RZero, position |-> 0, entry_price |-> RZero,
      position_size |-> RZero, stop_loss_price |-> NoneR,
      total_reward |-> RZero, trades |-> <<>>, portfolio_history |-> <<>>,
      risk_events |-> <<>>,
      risk_manager |->
          [ config |-> params.risk_config,
            initial_balance |-> IF params.use_risk_management
                                THEN params.initial_balance ELSE RZero,
            peak_balance |-> IF params.use_risk_management
                             THEN params.initial_balance ELSE RZero,
            daily_start_balance |-> IF params.use_risk_management
                                    THEN params.initial_balance ELSE RZero,
            current_day |-> NoDay, trades_today |-> 0, last_trade_step |-> -999,
            entry_price |-> RZero, highest_since_entry |-> RZero,
            trailing_stop_active |-> FALSE ] ]

\* C13: reset() after any sequence of steps (or after another reset) leaves
\* the same fields (step index, balance, holdings, position, entry price,
\* empty trade log and value history, zero total reward, every RiskManager
\* field) and returns the same first observation as reset() on a freshly
\* constructed environment.
C13_ResetReinitialises ==
    (last.op = "reset" /\ last.raised = None) =>
        /\ EnvFields = FreshResetFields
        /\ get_observation(EnvFields) =
               << [k \in 1..WindowSize |-> normalize_data(params.df, k - 1)],
                  IF params.variant = "AdvancedTradingEnv"
                  THEN <<RZero, RZero, ROne, RZero, RZero, ROne, RZero>>
                  ELSE <<RZero, ROne, RZero, RZero, ROne>> >>

\* a reset() called on an environment that has been stepped
C13_Witness ==
    /\ last.op = "reset"
    /\ last.raised = None
    /\ last.previous_op = "step"
    /\ EnvFields = FreshResetFields

\* C14: run_backtest terminates.  Every step raises the step index by
\* exactly one, the index never exceeds len(bars) - 1, a run takes at most
\* len(bars) - window_size - 1 steps and exactly that many when it ends by
\* terminated, terminated is returned exactly on reaching the last bar, and
\* no step follows one that returned terminated or truncated.
C14_BacktestTerminates ==
    [][ last'.op = "step" =>
          /\ ~(last.terminated \/ last.truncated)
          /\ current_step' = current_step + 1
          /\ current_step' <= DfLen(params.df) - 1
          /\ current_step' - WindowSize <= DfLen(params.df) - WindowSize - 1
          /\ last'.terminated <=>
                 (current_step' - WindowSize = DfLen(params.df) - WindowSize - 1) ]_vars

\* a run that ended on the last bar without truncation, after
\* len(bars) - window_size - 1 steps
C14_Witness ==
    /\ last.op = "step"
    /\ last.terminated
    /\ ~last.truncated
    /\ current_step - WindowSize = DfLen(params.df) - WindowSize - 1
    /\ Len(portfolio_history) = MaxSteps

\* data an episode cannot be started on: empty, without the close column,
\* or with fewer bars than window_size
InvalidData(df) ==
    \/ Len(df.close) = 0
    \/ "close" \notin df.columns
    \/ Len(df.close) < WindowSize

\* C15: constructing an environment on empty data, on data without the close
\* field or on fewer bars than window_size fails at construction: no
\* environment built on such data exists for reset() or step() to be called
\* on, so none of them is the first to raise.
C15_InvalidDataFailsAtConstruction ==
    last.op # "init" =>
        /\ ~InvalidData(params.df)
        /\ last.op = "reset" => last.raised = None

\* walk_forward_analysis returned for train_size 300, test_size 100,
\* step_size 100 over 1000 bars
WalkForward_300_100_100_1000 ==
    /\ params.variant = "Backtester"
    /\ results.op = "walk_forward_analysis"
    /\ params.args = [len_df |-> 1000, train_size |-> 300, test_size |-> 100,
                      step_size |-> 100]

\* the test slices [test_start:test_end] of the windows, in order
TestSlices == [k \in 1..Len(results.windows) |->
                  <<results.windows[k].test_start, results.windows[k].test_end>>]

\* C16 as stated: one window per start index 0, step_size, 2*step_size, ...
\* with test slice [s + train_size : s + train_size + test_size], and for
\* 300 / 100 / 100 over 1000 bars exactly 6 windows with test slices
\* [300:400], ..., [800:900].
C16_WalkForwardWindows_Original ==
    (params.variant = "Backtester" /\ results.op = "walk_forward_analysis") =>
        /\ \A k \in 1..Len(results.windows) :
              results.windows[k] =
                  Window((k - 1) * params.args.step_size, params.args.train_size,
                         params.args.test_size)
        /\ WalkForward_300_100_100_1000 =>
              TestSlices = << <<300, 400>>, <<400, 500>>, <<500, 600>>, <<600, 700>>,
                              <<700, 800>>, <<800, 900>> >>

\* C16: for test_size >= 52 (the test environments use the default window of
\* 50 bars) walk_forward_analysis produces one window per start index
\* s = 0, step_size, 2*step_size, ... with s + train_size + test_size <=
\* len(bars), with test slice [s + train_size : s + train_size + test_size];
\* for 300 / 100 / 100 over 1000 bars these are exactly 7 windows with the
\* contiguous test slices [300:400], ..., [900:1000].  A smaller test_size
\* that fits the data ends in an IndexError.
C16_WalkForwardWindows ==
    (params.variant = "Backtester" /\ results.op = "walk_forward_analysis") =>
        LET a == params.args
            fits(s) == s + a.train_size + a.test_size <= a.len_df
            n == Len(results.windows)
        IN  /\ (a.test_size >= default_window_size + 2) =>
                  /\ results.raised = None
                  /\ \A k \in 1..n :
                        /\ results.windows[k] =
                               Window((k - 1) * a.step_size, a.train_size, a.test_size)
                        /\ fits((k - 1) * a.step_size)
                  /\ ~fits(n * a.step_size)
            /\ (a.test_size < default_window_size + 2 /\ fits(0)) =>
                  results.raised = "IndexError"
            /\ WalkForward_300_100_100_1000 =>
                  TestSlices = << <<300, 400>>, <<400, 500>>, <<500, 600>>, <<600, 700>>,
                                  <<700, 800>>, <<800, 900>>, <<900, 1000>> >>

\* the 300 / 100 / 100 analysis over 1000 bars has returned its 7 windows
C16_Witness ==
    /\ WalkForward_300_100_100_1000
    /\ results.raised = None
    /\ Len(results.windows) = 7

\* calculate_all_metrics has returned for a value series
MetricsReturned ==
    params.variant = "PerformanceMetrics" /\ results.op = "calculate_all_metrics"

\* the number of steps in the longest contiguous run of steps of values
\* whose drawdown is strictly positive, 0 when there is none
LongestDrawdownRun(values) ==
    LET n == Len(values)
        run(i, j) == \A t \in i..j : RGt(Drawdown(values, t), RZero)
        lengths == { j - i + 1 : <<i, j>> \in { <<i, j>> \in (1..n) \X (1..n) : i <= j /\ run(i, j) } }
    IN  IF lengths = {} THEN 0 ELSE CHOOSE l \in lengths : \A m \in lengths : m <= l

\* C17: for every portfolio-value series max_drawdown is the maximum over t
\* of (running_max[t] - value[t]) / running_max[t], and
\* max_drawdown_duration_steps is the number of steps in the longest
\* contiguous run of steps with strictly positive drawdown (0 when the
\* series never falls below its running maximum).
C17_DrawdownMetrics ==
    MetricsReturned =>
        LET values == params.args.portfolio_values
        IN  /\ \A t \in 1..Len(values) :
                  RLe(Drawdown(values, t), results.drawdown.max_drawdown)
            /\ \E t \in 1..Len(values) :
                  Drawdown(values, t) = results.drawdown.max_drawdown
            /\ results.drawdown.max_drawdown_duration_steps = LongestDrawdownRun(values)

\* the profits of the closed (SELL) trades of a trade log
ClosedProfits(trade_log) ==
    LET IsSell(t) == t.action = "SELL"
        sells == SelectSeq(trade_log, IsSell)
    IN  [k \in 1..Len(sells) |-> sells[k].profit]

\* C18: for every trade log with at least one closed trade and no losing
\* closed trade (every closed trade has a profit above zero) profit_factor
\* is the infinite sentinel; whenever the gross losses are non-zero,
\* profit_factor = gross wins / |gross losses|.
C18_ProfitFactor ==
    MetricsReturned =>
        LET profits == ClosedProfits(params.args.trades)
            IsWin(x) == RGt(x, RZero)
            IsLosing(x) == RLt(x, RZero)
            gross_wins == RSum(SelectSeq(profits, IsWin))
            gross_losses == RSum(SelectSeq(profits, IsLosing))
        IN  /\ (Len(profits) > 0 /\ Len(SelectSeq(profits, IsWin)) = Len(profits)) =>
                  results.trading.profit_factor = Inf
            /\ gross_losses # RZero =>
                  results.trading.profit_factor =
                      Value(RDiv(gross_wins, RAbs(gross_losses)))

\* xs has at least one element and none below zero
NoNegativeReturn(xs) == Len(xs) >= 1 /\ \A k \in 1..Len(xs) : RGe(xs[k], RZero)

\* C19: for every return series with at least one return and no negative
\* return PerformanceMetrics reports sortino_ratio as the infinite sentinel,
\* and SortinoReward with a filled window returns a strictly positive reward
\* before the HOLD penalty.
C19_SortinoSentinel ==
    /\ (MetricsReturned /\ NoNegativeReturn(Returns(params.args.portfolio_values))) =>
           results.risk.sortino_ratio = Inf
    /\ ( /\ params.variant = "SortinoReward"
         /\ results.op = "SortinoReward.calculate"
         /\ Len(params.args.portfolio_history) >= params.args.window
         /\ NoNegativeReturn(Returns(LastN(params.args.portfolio_history,
                                           params.args.window))) ) =>
           /\ results.reward.before_penalty[1] = "value"
           /\ RGt(results.reward.before_penalty[2], RZero)

\* calculate_position_size has returned for the default or a factory configuration
PositionSizeReturned ==
    /\ params.variant = "RiskManager"
    /\ results.op = "calculate_position_size"

AsFloats(history) == [k \in 1..Len(history) |-> RInt(history[k])]

\* C21: for every action, position and value history shorter than the window,
\* SharpeReward.calculate and SortinoReward.calculate return exactly what
\* ProfitReward.calculate returns for the same arguments and hold_penalty.
C21_FallbackIsProfitFormula ==
    ( /\ params.variant \in {"SharpeReward", "SortinoReward"}
      /\ results.op \in {"SharpeReward.calculate", "SortinoReward.calculate"}
      /\ Len(params.args.portfolio_history) < params.args.window ) =>
        /\ results.reward.branch = "fallback"
        /\ results.reward.penalty = RZero
        /\ results.reward.before_penalty =
               Value(ProfitReward_calculate(params.args.action, params.args.position,
                         params.initial_balance, AsFloats(params.args.portfolio_history)))

\* an episode of an environment that defines get_trade_statistics has ended
EpisodeOver ==
    /\ params.variant \in {"TradingEnv", "AdvancedTradingEnv"}
    /\ started
    /\ last.op = "step"
    /\ last.terminated \/ last.truncated

\* C22: in every state reachable after reset(), also after an episode without
\* a trade or with positions opened and never closed, get_trade_statistics()
\* returns a record that contains total_return and final_portfolio_value.
C22_StatisticsHaveTotalReturn ==
    EpisodeOver =>
        /\ get_trade_statistics.raised = None
        /\ {"total_return", "final_portfolio_value"} \subseteq get_trade_statistics.keys

\* cash_balance + holdings * close of bar step, holdings signed
CashPlusHoldings(bal, hold, step) == RAdd(bal, RMul(hold, Close(params.df, step)))

\* C23: at every step of every variant the value appended to portfolio_history
\* (before acting) and the portfolio_value reported in info (after advancing)
\* equal cash_balance + holdings * close at the current step index, holdings
\* signed; so the value info reported in one step (the k-th element of the
\* series Backtester.run_backtest collects) is the value the next step appends
\* to the environment's portfolio_history (its element k+1).
C23_PortfolioValueConsistent ==
    [][ IsStep =>
          /\ Len(portfolio_history') = Len(portfolio_history) + 1
          /\ portfolio_history'[Len(portfolio_history')] =
                 CashPlusHoldings(balance, holdings, current_step)
          /\ last'.portfolio_value = CashPlusHoldings(balance', holdings', current_step')
          /\ last.op = "step" =>
                 portfolio_history'[Len(portfolio_history')] = last.portfolio_value
      ]_vars

\* an AdvancedTradingEnv step that requested, with size > 0, the side opposite
\* to the position open when the step began
FlipRequested ==
    /\ IsStep
    /\ params.variant = "AdvancedTradingEnv"
    /\ position # 0
    /\ last'.executed = -position
    /\ RGt(Clip(last'.action.size, RZero, max_position_size), RZero)

\* the two records of a flip, the sizing of the new position and its entry and
\* stop-loss prices
FlipBookkeeping ==
    LET n == Len(trades)
        price == Close(params.df, current_step)
        size == Clip(last'.action.size, RZero, max_position_size)
        stop_loss_pct == Clip(last'.action.stop_loss, RZero, R(2, 10))
        fee == params.commission
        cash == IF position = 1
                THEN RAdd(balance, RMul(RMul(holdings, price), RSub(ROne, fee)))
                ELSE RSub(balance, RMul(RMul(RAbs(holdings), price), RAdd(ROne, fee)))
        stop == IF params.enable_stop_loss /\ RGt(stop_loss_pct, RZero)
                THEN IF position' = 1 THEN RMul(price, RSub(ROne, stop_loss_pct))
                     ELSE RMul(price, RAdd(ROne, stop_loss_pct))
                ELSE NoneR
    IN  /\ Len(trades') = n + 2
        /\ SubSeq(trades', 1, n) = trades
        /\ trades'[n + 1].action = "CLOSE_FLIP"
        /\ trades'[n + 1].position_type = (IF position = 1 THEN "LONG" ELSE "SHORT")
        /\ trades'[n + 2].action = (IF position = 1 THEN "SHORT" ELSE "LONG")
        /\ \A k \in {n + 1, n + 2} :
              trades'[k].step = current_step /\ trades'[k].price = price
        /\ position' = -position
        /\ position' = 1 =>
              /\ holdings' = RDiv(RMul(RMul(cash, size), RSub(ROne, fee)), price)
              /\ balance' = RSub(cash, RMul(cash, size))
        /\ position' = -1 =>
              /\ holdings' = RNeg(RDiv(RMul(cash, size), price))
              /\ balance' = RAdd(cash, RMul(RMul(cash, size), RSub(ROne, fee)))
        /\ entry_price' = price
        /\ stop_loss_price' = stop
        /\ trades'[n + 2].stop_loss = stop

\* C24 as stated: every AdvancedTradingEnv step that requests the side opposite
\* to the open position with size > 0 appends a CLOSE_FLIP record for the old
\* side and then an open record for the new side, both at the same step and
\* close price, sizes the new position from the cash after the close, and
\* leaves entry_price and stop_loss_price as those of the new position.
C24_FlipBookkeeping_Original ==
    [][ FlipRequested => FlipBookkeeping ]_vars

\* C24 (amended): the same, for the steps whose stop-loss check does not close
\* the position before the action is executed.
C24_FlipBookkeeping ==
    [][ (FlipRequested /\ last'.risk_signal = None) => FlipBookkeeping ]_vars

\* a LONG was flipped to a SHORT with a stop-loss, and a fee was charged
C24_Witness ==
    /\ params.variant = "AdvancedTradingEnv"
    /\ last.op = "step"
    /\ last.risk_signal = None
    /\ params.commission # RZero
    /\ Len(trades) >= 3
    /\ trades[Len(trades) - 2].action = "LONG"
    /\ trades[Len(trades) - 1].action = "CLOSE_FLIP"
    /\ trades[Len(trades)].action = "SHORT"
    /\ trades[Len(trades)].step = current_step - 1
    /\ position = -1
    /\ stop_loss_price # NoneR

\* a step of a TradingEnv with risk management
RiskManagedTradingStep ==
    /\ IsStep
    /\ params.variant = "TradingEnv"
    /\ params.use_risk_management

\* FLAT, with the cash balance further below peak_balance than max_drawdown_pct
DrawdownBlocked(bal, pos, rm) ==
    /\ pos = 0
    /\ RLt(get_current_drawdown(rm, bal), RNeg(rm.config.max_drawdown_pct))

\* C25: in TradingEnv with risk management peak_balance never decreases within
\* an episode; a BUY that can_open_trade denies for max drawdown leaves the
\* environment FLAT and blocked; and from a blocked state every step advances
\* one bar, opens no position (a BUY is denied for max drawdown again) and
\* leaves the environment blocked: no position is opened for the rest of the
\* episode, which runs on to termination.
C25_DrawdownBlockAbsorbing ==
    [][ RiskManagedTradingStep =>
          /\ RGe(risk_manager'.peak_balance, risk_manager.peak_balance)
          /\ last'.can_trade = "Max Drawdown" =>
                 DrawdownBlocked(balance', position', risk_manager')
          /\ DrawdownBlocked(balance, position, risk_manager) =>
                 /\ DrawdownBlocked(balance', position', risk_manager')
                 /\ balance' = balance
                 /\ trades' = trades
                 /\ current_step' = current_step + 1
                 /\ ~last'.truncated
                 /\ last'.action = BUY =>
                        last'.can_trade = "Max Drawdown" /\ last'.executed = HOLD
      ]_vars

\* a BUY was denied for max drawdown, the second step or later after the
\* forced SELL that caused the drawdown, and the episode has terminated
C25_Witness ==
    /\ params.variant = "TradingEnv"
    /\ last.op = "step"
    /\ last.action = BUY
    /\ last.can_trade = "Max Drawdown"
    /\ Len(trades) = 2
    /\ trades[2].step <= current_step - 3
    /\ position = 0
    /\ last.terminated

\* C26: TradingEnv and ContinuousTradingEnv implement the same state machine:
\* from the same state (here the state after reset(), which is the same in
\* both), the same bars, balance, commission and RiskConfig with risk
\* management, and the same decoded action, the step of TradingEnv leaves the
\* cash balance, holdings and position that ContinuousTradingEnv's
\* _execute_action leaves, and reports truncated as ContinuousTradingEnv does.
C26_SameStateMachine ==
    [][ ( /\ IsStep
          /\ params.variant = "TradingEnv"
          /\ params.use_risk_management
          /\ last.op = "reset" ) =>
          LET price == Close(params.df, current_step)
              rb == RiskBlock(last'.action, price,
                              PortfolioValue(balance, holdings, current_step))
              ex == ContinuousExecute(rb.rm, rb.action, price)
              value == PortfolioValue(ex.balance, ex.holdings, current_step + 1)
          IN  /\ balance' = ex.balance
              /\ holdings' = ex.holdings
              /\ position' = ex.position
              /\ last'.truncated = RLt(value, RMul(params.initial_balance, R(5, 10)))
      ]_vars

\* C27: for every reward type of RewardFactory.available_rewards() the
\* environment walk_forward_analysis builds for a test slice uses a reward
\* calculator of the same kind as the Backtester's own environment.
C27_TestEnvKeepsRewardKind ==
    (params.variant = "WalkForwardTestEnv" /\ results.op = "test_env") =>
        results.reward_function.kind = results.env_reward_function.kind

\* C28: after every step of every variant the total_reward reported in the
\* info of that step is the sum of the rewards step() returned since the last
\* reset, the reward of that step included: it is the reward of the step after
\* a reset, and the total reported by the step before plus the reward of the
\* step otherwise.
C28_InfoTotalReward ==
    [][ IsStep =>
          last'.total_reward =
              RAdd(IF last.op = "step" THEN last.total_reward ELSE RZero, last'.reward)
      ]_vars

\* a step in which no risk trigger fired and whose requested action cannot
\* apply: HOLD, BUY while LONG or SELL while FLAT in TradingEnv and
\* ContinuousTradingEnv; the side already held, or flat while FLAT, in
\* AdvancedTradingEnv
InapplicableStep ==
    /\ IsStep
    /\ last'.risk_signal = None
    /\ IF params.variant = "AdvancedTradingEnv"
       THEN last'.executed = position
       ELSE \/ last'.action = HOLD
            \/ last'.action = BUY /\ position = 1
            \/ last'.action = SELL /\ position = 0

\* the stop-loss price in force: stop_loss_price in AdvancedTradingEnv,
\* risk_manager.get_stop_loss_price() in the environments with a risk manager
StopLossPriceOf(rm, slp) ==
    IF params.variant = "AdvancedTradingEnv" THEN slp
    ELSE IF params.use_risk_management THEN get_stop_loss_price(rm)
    ELSE NoneR

\* cash balance, holdings, position, entry price and trade log stay; the step
\* index, the value history and the total reward move on
PositionFrame ==
    /\ balance' = balance
    /\ holdings' = holdings
    /\ position' = position
    /\ entry_price' = entry_price
    /\ trades' = trades
    /\ position_size' = position_size
    /\ risk_events' = risk_events
    /\ current_step' = current_step + 1
    /\ Len(portfolio_history') = Len(portfolio_history) + 1
    /\ total_reward' = RAdd(total_reward, last'.reward)

PenaltyCharged ==
    IF last'.executed = HOLD /\ Len(portfolio_history') >= 2
    THEN incremental_hold_penalty ELSE RZero

\* 100 * (portfolio_history[n - 1] - initial_balance) / initial_balance
ValueChangeSoFar(history) ==
    RMul(RDiv(RSub(history[Len(history)], params.initial_balance),
              params.initial_balance), RInt(100))

\* C30: in TradingEnv with the Incremental reward the first step's reward is 0
\* and each later reward plus the HOLD penalty charged in it is 100 * the
\* change between the last two pre-action recordings / initial_balance, the
\* first recording being initial_balance; so after n >= 1 steps the rewards
\* returned so far plus the HOLD penalties charged so far (at most n - 1 of
\* them) equal 100 * (portfolio_history[n-1] - initial_balance) /
\* initial_balance.
C30_IncrementalTelescopes ==
    [][ ( /\ IsStep
          /\ params.variant = "TradingEnv"
          /\ RewardType(params) = "incremental" ) =>
          LET n == Len(portfolio_history')
          IN  /\ portfolio_history'[1] = params.initial_balance
              /\ n = 1 => last'.reward = RZero
              /\ n >= 2 =>
                     RAdd(last'.reward, PenaltyCharged) =
                         RMul(RDiv(RSub(portfolio_history'[n], portfolio_history'[n - 1]),
                                   params.initial_balance), RInt(100))
              /\ RSub(RAdd(total_reward', PenaltyCharged),
                      total_reward) =
                     RSub(ValueChangeSoFar(portfolio_history'),
                          IF n = 1 THEN RZero ELSE ValueChangeSoFar(portfolio_history))
              /\ \E holds \in 0..(n - 1) :
                     RAdd(total_reward', RMul(RInt(holds), incremental_hold_penalty)) =
                         ValueChangeSoFar(portfolio_history')
      ]_vars

\* the fourth step of an Incremental episode that bought, held and sold at a
\* changed value, with one HOLD penalty charged
C30_Witness ==
    /\ params.variant = "TradingEnv"
    /\ RewardType(params) = "incremental"
    /\ last.op = "step"
    /\ Len(portfolio_history) = 4
    /\ Len(trades) = 2
    /\ portfolio_history[4] # params.initial_balance
    /\ RAdd(total_reward, incremental_hold_penalty) = ValueChangeSoFar(portfolio_history)

=============================================================================
